---- MODULE Spec2Model ----
(***************************************************************************)
(* HRTool (src/HRTool.py): reconciliation of employee spreadsheets.        *)
(*                                                                         *)
(* The model follows the functions of the source one by one: the column    *)
(* normaliser, the header locator, the sheet normaliser, the code lookup   *)
(* builder, the consolidator, the detail builder and the two run handlers. *)
(* Pure functions are operators; each specification draws their inputs     *)
(* from bounded sets in its initial states and applies them in its actions.*)
(***************************************************************************)
EXTENDS Integers, Sequences, FiniteSets, TLC

VARIABLES
  pc,              \* position of the modelled call or run
  columns,         \* normalize_column_names: the raw header cells
  result,          \* normalize_column_names: the returned names
  df,              \* detect_header_row: the raw table (rows of cells)
  header_row_idx,  \* detect_header_row: the returned index, or NotFound
  all_dfs,         \* the normalised frames of the run
  dept_map,        \* department code -> name
  qual_map,        \* grade code -> name
  pos_map,         \* position code -> name
  combined,        \* the pool; build_detail_table adds __merge_key__ to it
  grouped,         \* build_detail_table: the merge keys in group order
  result_rows,     \* build_detail_table: one merged row per group
  detail_df_all,   \* the detail table
  today,           \* datetime.now() of the run
  input_dir,       \* the workbooks of the input folder, each a list of raw sheets
  output_dir,      \* the detail sheets of the files written to the output folder, oldest first
  gender_cell,     \* normalize_gender: the cell given
  gender,          \* normalize_gender: the returned text
  normalized_df,   \* normalize_sheet: the returned frame, or NoFrame
  detail_df,       \* the active rows of the detail table
  master_df,       \* the master view
  retired_df,      \* the departed rows, or NoFrame
  headcount_df     \* the rows of the headcount summary, << >> for None

vars == << pc, columns, result, df, header_row_idx, all_dfs, dept_map, qual_map,
           pos_map, combined, grouped, result_rows, detail_df_all, today,
           input_dir, output_dir, gender_cell, gender, normalized_df,
           detail_df, master_df, retired_df, headcount_df >>

column_vars == << columns, result >>
header_vars == << df, header_row_idx >>
map_vars == << dept_map, qual_map, pos_map >>
detail_vars == << combined, grouped, result_rows, detail_df_all >>
folder_vars == << input_dir, output_dir >>
gender_vars == << gender_cell, gender >>
view_vars == << detail_df, master_df, retired_df, headcount_df >>

-----------------------------------------------------------------------------
(* Bounds of the model *)

\* header cells given to normalize_column_names
MaxCols == 3
\* rows of a small raw table given to detect_header_row
MaxRows == 2
\* rows of a long raw table beyond max_scan
ScanSlack == 2
\* rows of a pool given to build_detail_table
MaxPool == 3
\* rows of a pool of records of one employee
MaxFieldPool == 2
\* frames given to build_master_maps
MaxFrames == 2
\* rows of such a frame
MaxFrameRows == 2
\* data rows of the sheet given to a first build
MaxInputRows == 4
\* files written to the output folder
MaxRuns == 2
\* white-space characters before and after a gender text
MaxPad == 1
\* records of a pool handed to the view extraction
MaxViewRows == 5
\* data rows of a sheet handed to normalize_sheet
MaxSheetRows == 2

-----------------------------------------------------------------------------
(* Column labels. A character outside ASCII is written #<decimal code point>;
   so that distinct labels of the source stay distinct and the character-level
   operations (strip, upper, containment) act on them as on the source text. *)
COL_EMP_NO == "#31038;#21729;#30058;#21495;"  \* "社員番号"
COL_NAME == "#27663;#21517;"  \* "氏名"
COL_KANA == "#12501;#12522;#12460;#12490;"  \* "フリガナ"
COL_BIRTH_DATE == "#29983;#24180;#26376;#26085;"  \* "生年月日"
COL_GENDER == "#24615;#21029;"  \* "性別"
COL_HIRE_DATE == "#20837;#31038;#24180;#26376;#26085;"  \* "入社年月日"
COL_DEPT_CODE == "#25152;#23646;#12467;#12540;#12489;"  \* "所属コード"
COL_DEPT_NAME == "#25152;#23646;#21517;"  \* "所属名"
COL_QUAL_CODE == "#36039;#26684;#12467;#12540;#12489;"  \* "資格コード"
COL_QUAL_NAME == "#36039;#26684;#21517;"  \* "資格名"
COL_POS_CODE == "#32887;#20301;#12467;#12540;#12489;"  \* "職位コード"
COL_POS_NAME == "#32887;#20301;#21517;"  \* "職位名"
COL_HEALTH_CODE == "#20581;#20445;#12467;#12540;#12489;"  \* "健保コード"
COL_NO == "NO"  \* "NO"
COL_EMPLOYMENT == "#38599;#29992;#24418;#24907;"  \* "雇用形態"
COL_RETIRE_DATE == "#36864;#32887;#24180;#26376;#26085;"  \* "退職年月日"
COL_SCHOOL == "#23398;#26657;#21517;"  \* "学校名"
COL_MAJOR == "#23398;#31185;#21517;"  \* "学科名"
COL_WORKPLACE == "#21220;#21209;#22320;"  \* "勤務地"
COL_DIVISION == "#26412;#37096;"  \* "本部"
COL_SUBDEPT == "#25152;#23646;#37096;"  \* "所属部"
COL_RAISE_DATE == "#26119;#32102;#26085;"  \* "昇給日"
COL_TENURE == "#21220;#32154;#24180;#25968;"  \* "勤続年数"
COL_SOURCE == "__source__"
COL_PRIORITY == "__priority__"

\* TARGET_COLUMNS, in declaration order
TARGET_COLUMNS ==
  << COL_EMP_NO, COL_NAME, COL_KANA, COL_BIRTH_DATE,
     COL_GENDER, COL_HIRE_DATE, COL_DEPT_CODE, COL_DEPT_NAME,
     COL_QUAL_CODE, COL_QUAL_NAME, COL_POS_CODE, COL_POS_NAME,
     COL_HEALTH_CODE, COL_NO, COL_EMPLOYMENT, COL_RETIRE_DATE,
     COL_SCHOOL, COL_MAJOR, COL_WORKPLACE, COL_DIVISION,
     COL_SUBDEPT, COL_RAISE_DATE >>

DATE_COLUMNS == { COL_BIRTH_DATE, COL_HIRE_DATE, COL_RETIRE_DATE }

(* COLUMN_SYNONYMS, in dictionary (insertion) order: the canonical name and its
   list of labels. *)
COLUMN_SYNONYMS ==
  <<
    \* 社員番号: '社員番号', '社員No', '社員NO', '社員ＮＯ', '社員ｎｏ', '社員no', 'emp_no', '従業員番号', '職員番号', '社員コード', '社員ｺｰﾄﾞ', 'Employee No', 'EMP_NO', '社員№'
    [canon |-> COL_EMP_NO,
     synonyms |-> << "#31038;#21729;#30058;#21495;",
                   "#31038;#21729;No",
                   "#31038;#21729;NO",
                   "#31038;#21729;#65326;#65327;",
                   "#31038;#21729;#65358;#65359;",
                   "#31038;#21729;no",
                   "emp_no",
                   "#24467;#26989;#21729;#30058;#21495;",
                   "#32887;#21729;#30058;#21495;",
                   "#31038;#21729;#12467;#12540;#12489;",
                   "#31038;#21729;#65402;#65392;#65412;#65438;",
                   "Employee No",
                   "EMP_NO",
                   "#31038;#21729;#8470;" >>],
    \* 氏名: '氏名', '名前', '社員名', 'name', 'Name', 'NAME', '氏\u3000名', '社員氏名', '職員名', '姓名', 'フルネーム', '社員氏名'
    [canon |-> COL_NAME,
     synonyms |-> << "#27663;#21517;",
                   "#21517;#21069;",
                   "#31038;#21729;#21517;",
                   "name",
                   "Name",
                   "NAME",
                   "#27663;#12288;#21517;",
                   "#31038;#21729;#27663;#21517;",
                   "#32887;#21729;#21517;",
                   "#22995;#21517;",
                   "#12501;#12523;#12493;#12540;#12512;",
                   "#31038;#21729;#27663;#21517;" >>],
    \* フリガナ: 'フリガナ', 'カナ', 'フリガナ氏名', 'ふりがな', 'フリガナ名', 'かな', 'カナ氏名', 'フリガナ名前', 'ヨミガナ', 'よみがな'
    [canon |-> COL_KANA,
     synonyms |-> << "#12501;#12522;#12460;#12490;",
                   "#12459;#12490;",
                   "#12501;#12522;#12460;#12490;#27663;#21517;",
                   "#12405;#12426;#12364;#12394;",
                   "#12501;#12522;#12460;#12490;#21517;",
                   "#12363;#12394;",
                   "#12459;#12490;#27663;#21517;",
                   "#12501;#12522;#12460;#12490;#21517;#21069;",
                   "#12520;#12511;#12460;#12490;",
                   "#12424;#12415;#12364;#12394;" >>],
    \* 生年月日: '生年月日', '生年月日（西暦）', '誕生日', '生年月日(西暦)', '生まれ', '年月日', '生年月日 (西暦)', 'birth_date', 'BIRTH_DATE', '誕生年月日'
    [canon |-> COL_BIRTH_DATE,
     synonyms |-> << "#29983;#24180;#26376;#26085;",
                   "#29983;#24180;#26376;#26085;#65288;#35199;#26278;#65289;",
                   "#35477;#29983;#26085;",
                   "#29983;#24180;#26376;#26085;(#35199;#26278;)",
                   "#29983;#12414;#12428;",
                   "#24180;#26376;#26085;",
                   "#29983;#24180;#26376;#26085; (#35199;#26278;)",
                   "birth_date",
                   "BIRTH_DATE",
                   "#35477;#29983;#24180;#26376;#26085;" >>],
    \* 性別: '性別', '男女', '性', 'gender', 'Gender', 'GENDER', '性別区分'
    [canon |-> COL_GENDER,
     synonyms |-> << "#24615;#21029;",
                   "#30007;#22899;",
                   "#24615;",
                   "gender",
                   "Gender",
                   "GENDER",
                   "#24615;#21029;#21306;#20998;" >>],
    \* 入社年月日: '入社年月日', '入社日', '入社年月日（西暦）', '入社年月日(西暦)', '入社', '採用日', '入社年月', '入社年月日 (西暦)', 'hire_date', '入社年月日 ', '採用年月日', '入社\u3000 \n年月'
    [canon |-> COL_HIRE_DATE,
     synonyms |-> << "#20837;#31038;#24180;#26376;#26085;",
                   "#20837;#31038;#26085;",
                   "#20837;#31038;#24180;#26376;#26085;#65288;#35199;#26278;#65289;",
                   "#20837;#31038;#24180;#26376;#26085;(#35199;#26278;)",
                   "#20837;#31038;",
                   "#25505;#29992;#26085;",
                   "#20837;#31038;#24180;#26376;",
                   "#20837;#31038;#24180;#26376;#26085; (#35199;#26278;)",
                   "hire_date",
                   "#20837;#31038;#24180;#26376;#26085; ",
                   "#25505;#29992;#24180;#26376;#26085;",
                   "#20837;#31038;#12288; \n#24180;#26376;" >>],
    \* 所属コード: '所属コード', '部署コード', 'dept_code', '所属ｺｰﾄﾞ', '部署ｺｰﾄﾞ', '組織コード', '所属CD', '部署CD', 'DEPT_CODE', '部門コード'
    [canon |-> COL_DEPT_CODE,
     synonyms |-> << "#25152;#23646;#12467;#12540;#12489;",
                   "#37096;#32626;#12467;#12540;#12489;",
                   "dept_code",
                   "#25152;#23646;#65402;#65392;#65412;#65438;",
                   "#37096;#32626;#65402;#65392;#65412;#65438;",
                   "#32068;#32340;#12467;#12540;#12489;",
                   "#25152;#23646;CD",
                   "#37096;#32626;CD",
                   "DEPT_CODE",
                   "#37096;#38272;#12467;#12540;#12489;" >>],
    \* 所属名: '所属名', '部署名', '所属', '部署', '組織名', '所属部署', '配属先', 'dept_name', 'DEPT_NAME', '部門名称', '部門'
    [canon |-> COL_DEPT_NAME,
     synonyms |-> << "#25152;#23646;#21517;",
                   "#37096;#32626;#21517;",
                   "#25152;#23646;",
                   "#37096;#32626;",
                   "#32068;#32340;#21517;",
                   "#25152;#23646;#37096;#32626;",
                   "#37197;#23646;#20808;",
                   "dept_name",
                   "DEPT_NAME",
                   "#37096;#38272;#21517;#31216;",
                   "#37096;#38272;" >>],
    \* 資格コード: '資格コード', 'grade_code', '資格ｺｰﾄﾞ', '等級コード', '等級', '資格CD', 'GRADE_CODE'
    [canon |-> COL_QUAL_CODE,
     synonyms |-> << "#36039;#26684;#12467;#12540;#12489;",
                   "grade_code",
                   "#36039;#26684;#65402;#65392;#65412;#65438;",
                   "#31561;#32026;#12467;#12540;#12489;",
                   "#31561;#32026;",
                   "#36039;#26684;CD",
                   "GRADE_CODE" >>],
    \* 資格名: '等級名', '職能資格', 'grade_name', 'GRADE_NAME'
    [canon |-> COL_QUAL_NAME,
     synonyms |-> << "#31561;#32026;#21517;",
                   "#32887;#33021;#36039;#26684;",
                   "grade_name",
                   "GRADE_NAME" >>],
    \* 職位コード: '職位コード', 'position_code', '職位ｺｰﾄﾞ', '役職コード', '職位CD', 'POSITION_CODE'
    [canon |-> COL_POS_CODE,
     synonyms |-> << "#32887;#20301;#12467;#12540;#12489;",
                   "position_code",
                   "#32887;#20301;#65402;#65392;#65412;#65438;",
                   "#24441;#32887;#12467;#12540;#12489;",
                   "#32887;#20301;CD",
                   "POSITION_CODE" >>],
    \* 職位名: '職位名', '職位', '役職名', '役職', 'position_name', 'POSITION_NAME'
    [canon |-> COL_POS_NAME,
     synonyms |-> << "#32887;#20301;#21517;",
                   "#32887;#20301;",
                   "#24441;#32887;#21517;",
                   "#24441;#32887;",
                   "position_name",
                   "POSITION_NAME" >>],
    \* 健保コード: '健保コード', 'health_code', '健保ｺｰﾄﾞ', '保険コード', '健保CD', 'HEALTH_CODE'
    [canon |-> COL_HEALTH_CODE,
     synonyms |-> << "#20581;#20445;#12467;#12540;#12489;",
                   "health_code",
                   "#20581;#20445;#65402;#65392;#65412;#65438;",
                   "#20445;#38522;#12467;#12540;#12489;",
                   "#20581;#20445;CD",
                   "HEALTH_CODE" >>],
    \* NO: 'NO', 'No', '番号', 'no', '№', 'ＮＯ', 'No.', 'NUMBER'
    [canon |-> COL_NO,
     synonyms |-> << "NO",
                   "No",
                   "#30058;#21495;",
                   "no",
                   "#8470;",
                   "#65326;#65327;",
                   "No.",
                   "NUMBER" >>],
    \* 雇用形態: '雇用形態', '雇用区分', '雇用', '勤務形態', '就業形態', '雇用形態区分', 'employment_type', 'EMPLOYMENT_TYPE', '従業員区分', '社員\n区分', '資格名', '資格'
    [canon |-> COL_EMPLOYMENT,
     synonyms |-> << "#38599;#29992;#24418;#24907;",
                   "#38599;#29992;#21306;#20998;",
                   "#38599;#29992;",
                   "#21220;#21209;#24418;#24907;",
                   "#23601;#26989;#24418;#24907;",
                   "#38599;#29992;#24418;#24907;#21306;#20998;",
                   "employment_type",
                   "EMPLOYMENT_TYPE",
                   "#24467;#26989;#21729;#21306;#20998;",
                   "#31038;#21729;\n#21306;#20998;",
                   "#36039;#26684;#21517;",
                   "#36039;#26684;" >>],
    \* 退職年月日: '退職年月日', '退職日', '退職年月日（西暦）', '退職年月日(西暦)', '退職', '離職日', '退職年月日 (西暦)', 'retire_date', 'RETIRE_DATE', '退社日'
    [canon |-> COL_RETIRE_DATE,
     synonyms |-> << "#36864;#32887;#24180;#26376;#26085;",
                   "#36864;#32887;#26085;",
                   "#36864;#32887;#24180;#26376;#26085;#65288;#35199;#26278;#65289;",
                   "#36864;#32887;#24180;#26376;#26085;(#35199;#26278;)",
                   "#36864;#32887;",
                   "#38626;#32887;#26085;",
                   "#36864;#32887;#24180;#26376;#26085; (#35199;#26278;)",
                   "retire_date",
                   "RETIRE_DATE",
                   "#36864;#31038;#26085;" >>],
    \* 学校名: '学校名', '出身校', '最終学歴校', '学校', '出身学校'
    [canon |-> COL_SCHOOL,
     synonyms |-> << "#23398;#26657;#21517;",
                   "#20986;#36523;#26657;",
                   "#26368;#32066;#23398;#27508;#26657;",
                   "#23398;#26657;",
                   "#20986;#36523;#23398;#26657;" >>],
    \* 学科名: '学科名', '学部学科', '専攻', '学科', '専攻名'
    [canon |-> COL_MAJOR,
     synonyms |-> << "#23398;#31185;#21517;",
                   "#23398;#37096;#23398;#31185;",
                   "#23554;#25915;",
                   "#23398;#31185;",
                   "#23554;#25915;#21517;" >>],
    \* 勤務地: '勤務地', '勤務場所', '事業所', '勤務先', '配属先', 'work_location', 'WORK_LOCATION', '事業所名称'
    [canon |-> COL_WORKPLACE,
     synonyms |-> << "#21220;#21209;#22320;",
                   "#21220;#21209;#22580;#25152;",
                   "#20107;#26989;#25152;",
                   "#21220;#21209;#20808;",
                   "#37197;#23646;#20808;",
                   "work_location",
                   "WORK_LOCATION",
                   "#20107;#26989;#25152;#21517;#31216;" >>],
    \* 本部: '本部', '本部名', '本部組織'
    [canon |-> COL_DIVISION,
     synonyms |-> << "#26412;#37096;",
                   "#26412;#37096;#21517;",
                   "#26412;#37096;#32068;#32340;" >>],
    \* 所属部: '所属部', '部', '部名', '部署'
    [canon |-> COL_SUBDEPT,
     synonyms |-> << "#25152;#23646;#37096;",
                   "#37096;",
                   "#37096;#21517;",
                   "#37096;#32626;" >>],
    \* 昇給日: '昇給日', '昇給年月日', '昇給月日', '昇給日付'
    [canon |-> COL_RAISE_DATE,
     synonyms |-> << "#26119;#32102;#26085;",
                   "#26119;#32102;#24180;#26376;#26085;",
                   "#26119;#32102;#26376;#26085;",
                   "#26119;#32102;#26085;#20184;" >>]
  >>

-----------------------------------------------------------------------------
(* Cells.  A cell read by pandas is a missing value (NaN), a text or a number;
   a number is kept by its decimal text, which is what str() gives. *)

NaN == [t |-> "nan", s |-> "nan"]
Text(s) == [t |-> "str", s |-> s]
Num(s) == [t |-> "num", s |-> s]

\* pd.isna / pd.notna
isna(v) == v.t = "nan"
notna(v) == ~isna(v)

\* str(value); str(float('nan')) is "nan"
Str(v) == v.s

\* Python truthiness of a cell: "" and the number 0 are false, NaN is true
Truthy(v) == IF v.t = "num" THEN v.s # "0" ELSE v.s # ""

-----------------------------------------------------------------------------
(* Text *)

IDEOGRAPHIC_SPACE == "#12288;"   \* U+3000, white space for str.strip()

IsSpace(c) == c \in {" ", "\n", "\t"}

StartsWith(s, p) == Len(s) >= Len(p) /\ SubSeq(s, 1, Len(p)) = p
EndsWith(s, p) == Len(s) >= Len(p) /\ SubSeq(s, Len(s) - Len(p) + 1, Len(s)) = p

RECURSIVE LStrip(_)
LStrip(s) ==
  IF s = "" THEN ""
  ELSE IF IsSpace(Head(s)) THEN LStrip(Tail(s))
  ELSE IF StartsWith(s, IDEOGRAPHIC_SPACE)
       THEN LStrip(SubSeq(s, Len(IDEOGRAPHIC_SPACE) + 1, Len(s)))
  ELSE s

RECURSIVE RStrip(_)
RStrip(s) ==
  IF s = "" THEN ""
  ELSE IF IsSpace(SubSeq(s, Len(s), Len(s))) THEN RStrip(SubSeq(s, 1, Len(s) - 1))
  ELSE IF EndsWith(s, IDEOGRAPHIC_SPACE)
       THEN RStrip(SubSeq(s, 1, Len(s) - Len(IDEOGRAPHIC_SPACE)))
  ELSE s

\* str.strip()
Strip(s) == RStrip(LStrip(s))

\* x in list
InList(x, list) == \E i \in 1..Len(list) : list[i] = x

Min(S) == CHOOSE x \in S : \A y \in S : x <= y

\* sequences over S of length at most n
SeqsUpTo(S, n) == UNION { [1..k -> S] : k \in 0..n }

-----------------------------------------------------------------------------
(* normalize_column_names *)

\* the canonical name of a trimmed label: the first entry of COLUMN_SYNONYMS
\* (dictionary order) whose list holds it; "" stands for None
CanonicalName(col_str) ==
  LET hits == { i \in 1..Len(COLUMN_SYNONYMS) :
                  InList(col_str, COLUMN_SYNONYMS[i].synonyms) }
  IN IF hits = {} THEN "" ELSE COLUMN_SYNONYMS[Min(hits)].canon

\* col_str = str(col).strip() if pd.notna(col) else ""
CellStr(cell) == IF notna(cell) THEN Strip(Str(cell)) ELSE ""

\* the first loop: one name per column, col_<position> for an empty label
RECURSIVE NormalizedNames(_, _)
NormalizedNames(cols, normalized) ==
  IF cols = << >> THEN normalized
  ELSE LET col_str == CellStr(Head(cols))
           canonical_name == CanonicalName(col_str)
           name == IF canonical_name # "" THEN canonical_name
                   ELSE IF col_str # "" THEN col_str
                   ELSE "col_" \o ToString(Len(normalized))
       IN NormalizedNames(Tail(cols), Append(normalized, name))

\* the second loop: a name seen before gets the suffix _<times seen before>
RECURSIVE Deduplicate(_, _, _)
Deduplicate(normalized, seen, res) ==
  IF normalized = << >> THEN res
  ELSE LET name == Head(normalized)
       IN IF name \in DOMAIN seen
          THEN LET n == seen[name] + 1
               IN Deduplicate(Tail(normalized),
                              [seen EXCEPT ![name] = n],
                              Append(res, name \o "_" \o ToString(n)))
          ELSE Deduplicate(Tail(normalized),
                           [k \in DOMAIN seen \cup {name} |->
                              IF k = name THEN 0 ELSE seen[k]],
                           Append(res, name))

EmptyDict == [k \in {} |-> 0]

normalize_column_names(cols) ==
  Deduplicate(NormalizedNames(cols, << >>), EmptyDict, << >>)

-----------------------------------------------------------------------------
(* detect_header_row *)

\* default of max_scan
MAX_SCAN == 50
NotFound == -1     \* stands for the returned None

\* some cell of the row, trimmed, is a label of some canonical column
RowHasSynonym(row) ==
  \E c \in 1..Len(row) : CanonicalName(CellStr(row[c])) # ""

IntMin(a, b) == IF a <= b THEN a ELSE b

\* for row_idx in range(max_scan): the first row with a label
RECURSIVE ScanRows(_, _, _)
ScanRows(table, row_idx, max_scan) ==
  IF row_idx >= max_scan THEN NotFound
  ELSE IF RowHasSynonym(table[row_idx + 1]) THEN row_idx
  ELSE ScanRows(table, row_idx + 1, max_scan)

\* a scan of every row of the table, whatever max_scan
detect_header_row_unbounded(table, max_scan) ==
  IF Len(table) = 0 THEN NotFound
  ELSE ScanRows(table, 0, Len(table))

detect_header_row(table, max_scan) ==
  IF Len(table) = 0 THEN NotFound
  ELSE ScanRows(table, 0, IntMin(max_scan, Len(table)))

-----------------------------------------------------------------------------
(* More text: upper case, containment, splitting, integers *)

LOWER == "abcdefghijklmnopqrstuvwxyz"
UPPER == "ABCDEFGHIJKLMNOPQRSTUVWXYZ"
DIGITS == "0123456789"

\* position (1-based) of the character c in the text s, 0 if absent
RECURSIVE IndexOf(_, _, _)
IndexOf(c, s, i) ==
  IF i > Len(s) THEN 0
  ELSE IF SubSeq(s, i, i) = c THEN i
  ELSE IndexOf(c, s, i + 1)

UpperChar(c) ==
  LET i == IndexOf(c, LOWER, 1) IN IF i = 0 THEN c ELSE SubSeq(UPPER, i, i)

LowerChar(c) ==
  LET i == IndexOf(c, UPPER, 1) IN IF i = 0 THEN c ELSE SubSeq(LOWER, i, i)

\* str.upper(), str.lower(): the ASCII letters change, #<code point>; stay
RECURSIVE Upper(_)
Upper(s) == IF s = "" THEN "" ELSE UpperChar(Head(s)) \o Upper(Tail(s))

RECURSIVE Lower(_)
Lower(s) == IF s = "" THEN "" ELSE LowerChar(Head(s)) \o Lower(Tail(s))

\* pattern in s
Contains(s, pattern) ==
  \E i \in 1..(Len(s) - Len(pattern) + 1) :
    SubSeq(s, i, i + Len(pattern) - 1) = pattern

\* s.split(sep) for a one-character separator
RECURSIVE Split(_, _, _, _)
Split(s, sep, current, parts) ==
  IF s = "" THEN Append(parts, current)
  ELSE IF Head(s) = sep THEN Split(Tail(s), sep, "", Append(parts, current))
  ELSE Split(Tail(s), sep, current \o Head(s), parts)

IsDigits(s) ==
  /\ s # ""
  /\ \A i \in 1..Len(s) : IndexOf(SubSeq(s, i, i), DIGITS, 1) # 0

\* int(s) for a text of decimal digits
RECURSIVE DigitsValue(_, _)
DigitsValue(s, acc) ==
  IF s = "" THEN acc
  ELSE DigitsValue(Tail(s), 10 * acc + (IndexOf(Head(s), DIGITS, 1) - 1))

\* int() accepts surrounding white space and a sign
IntText(s) ==
  LET t == Strip(s)
  IN IF t # "" /\ Head(t) \in {"-", "+"} THEN Tail(t) ELSE t

IsInt(s) == IsDigits(IntText(s))

ParseInt(s) ==
  LET t == Strip(s)
      v == DigitsValue(IntText(s), 0)
  IN IF Head(t) = "-" THEN 0 - v ELSE v

Pad(n, width) ==
  LET s == ToString(n)
  IN IF Len(s) >= width THEN s
     ELSE SubSeq("0000", 1, width - Len(s)) \o s

-----------------------------------------------------------------------------
(* Calendar: datetime of the Python library *)

IsLeap(y) == (y % 4 = 0 /\ y % 100 # 0) \/ y % 400 = 0

DaysInMonth(y, m) ==
  IF m = 2 THEN (IF IsLeap(y) THEN 29 ELSE 28)
  ELSE IF m \in {4, 6, 9, 11} THEN 30 ELSE 31

\* datetime(y, m, d) raises ValueError outside these ranges
ValidDate(y, m, d) ==
  /\ y \in 1..9999
  /\ m \in 1..12
  /\ d >= 1 /\ d <= DaysInMonth(y, m)

\* the date z days after 0000-03-01 (proleptic Gregorian), z >= 0
CivilFromDays(z) ==
  LET era == z \div 146097
      doe == z - era * 146097
      yoe == (doe - doe \div 1460 + doe \div 36524 - doe \div 146096) \div 365
      doy == doe - (365 * yoe + yoe \div 4 - yoe \div 100)
      mp == (5 * doy + 2) \div 153
      d == doy - (153 * mp + 2) \div 5 + 1
      m == IF mp < 10 THEN mp + 3 ELSE mp - 9
      y == yoe + era * 400 + (IF m <= 2 THEN 1 ELSE 0)
  IN [year |-> y, month |-> m, day |-> d]

\* value.strftime('%Y/%m/%d')
FormatDate(dt) ==
  Pad(dt.year, 4) \o "/" \o Pad(dt.month, 2) \o "/" \o Pad(dt.day, 2)

-----------------------------------------------------------------------------
(* convert_excel_date, parse_date_string, calculate_years_of_service *)

\* days from 0000-03-01 to 1899-12-30
EXCEL_EPOCH_OFFSET == 693899
\* 0001-01-01 as a serial
MIN_SERIAL == 0 - 693593
\* 9999-12-31 as a serial
MAX_SERIAL == 2958465

\* the cell is missing, a text or an integer; the result is a text
convert_excel_date(value) ==
  IF isna(value) \/ value = Text("") THEN ""
  ELSE IF value.t = "num"
       THEN IF IsInt(value.s) /\ ParseInt(value.s) >= MIN_SERIAL
                              /\ ParseInt(value.s) <= MAX_SERIAL
            THEN FormatDate(CivilFromDays(ParseInt(value.s) + EXCEL_EPOCH_OFFSET))
            ELSE Str(value)
  ELSE Str(value)

NoDate == [year |-> 0, month |-> 0, day |-> 0]   \* stands for None

\* date_str is a text: YYYY/MM/DD gives a date, anything else None
parse_date_string(date_str) ==
  IF date_str = "" \/ Strip(date_str) = "" THEN NoDate
  ELSE IF Contains(date_str, "/")
       THEN LET parts == Split(date_str, "/", "", << >>)
            IN IF /\ Len(parts) = 3
                  /\ \A i \in 1..3 : IsInt(parts[i])
                  /\ ValidDate(ParseInt(parts[1]), ParseInt(parts[2]), ParseInt(parts[3]))
               THEN [year |-> ParseInt(parts[1]), month |-> ParseInt(parts[2]),
                     day |-> ParseInt(parts[3])]
               ELSE NoDate
  ELSE NoDate

YEARS_SUFFIX == "#24180;"   \* "年"

\* now is datetime.now(), the local today
calculate_years_of_service(hire_date_str, now) ==
  LET hire_date == parse_date_string(hire_date_str)
  IN IF hire_date = NoDate THEN ""
     ELSE LET before == \/ now.month < hire_date.month
                        \/ (now.month = hire_date.month /\ now.day < hire_date.day)
              years == now.year - hire_date.year - (IF before THEN 1 ELSE 0)
          IN IF years >= 0 THEN ToString(years) \o YEARS_SUFFIX ELSE ""

-----------------------------------------------------------------------------
(* normalize_gender *)

MALE_LABEL == "#30007;#24615;"     \* "男性"
FEMALE_LABEL == "#22899;#24615;"   \* "女性"

\* "男", "男性", "M", "MALE", "オトコ", "ダンセイ"
male_patterns ==
  << "#30007;", "#30007;#24615;", "M", "MALE", "#12458;#12488;#12467;",
     "#12480;#12531;#12475;#12452;" >>

\* "女", "女性", "F", "FEMALE", "オンナ", "ジョセイ"
female_patterns ==
  << "#22899;", "#22899;#24615;", "F", "FEMALE", "#12458;#12531;#12490;",
     "#12472;#12519;#12475;#12452;" >>

\* the patterns looked for in the text as it is written
normalize_gender_cased(gender_value) ==
  IF isna(gender_value) THEN ""
  ELSE LET gender_str == Strip(Str(gender_value))
       IN IF \E i \in 1..Len(male_patterns) : Contains(gender_str, male_patterns[i])
          THEN MALE_LABEL
          ELSE IF \E i \in 1..Len(female_patterns) :
                    Contains(gender_str, female_patterns[i])
               THEN FEMALE_LABEL
               ELSE Strip(Str(gender_value))


normalize_gender(gender_value) ==
  IF isna(gender_value) THEN ""
  ELSE LET gender_str == Upper(Strip(Str(gender_value)))
       IN IF \E i \in 1..Len(male_patterns) : Contains(gender_str, male_patterns[i])
          THEN MALE_LABEL
          ELSE IF \E i \in 1..Len(female_patterns) :
                    Contains(gender_str, female_patterns[i])
               THEN FEMALE_LABEL
               ELSE Strip(Str(gender_value))

-----------------------------------------------------------------------------
(* Data frames.  A frame is its set of column names and its rows in order; a
   row is a function from the column names to cells (the __priority__ cell is
   an integer). *)

Frame(cols, rows) == [columns |-> cols, rows |-> rows]

\* the text of a cell as the code reads it: str(row[col]).strip() if
\* pd.notna(row[col]) else ""
CellText(row, col) == IF notna(row[col]) THEN Strip(Str(row[col])) ELSE ""

\* functions with a text domain, used as Python dicts
EmptyMap == [k \in {} |-> ""]

\* the elements of a sequence and the concatenation of a sequence of sequences
Range(seq) == { seq[i] : i \in 1..Len(seq) }

RECURSIVE Flatten(_)
Flatten(seqs) == IF seqs = << >> THEN << >> ELSE Head(seqs) \o Flatten(Tail(seqs))

RECURSIVE Filter(_, _)
Filter(seq, keep) ==
  IF seq = << >> THEN << >>
  ELSE IF Head(seq) \in keep THEN << Head(seq) >> \o Filter(Tail(seq), keep)
  ELSE Filter(Tail(seq), keep)

-----------------------------------------------------------------------------
(* build_master_maps *)

\* the (code, name) observations of one frame for one domain, in row order:
\* only a frame with both columns is read, only a pair with both texts counts
RECURSIVE RowPairs(_, _, _)
RowPairs(rows, code_col, name_col) ==
  IF rows = << >> THEN << >>
  ELSE LET code == CellText(Head(rows), code_col)
           name == CellText(Head(rows), name_col)
       IN (IF code # "" /\ name # "" THEN << << code, name >> >> ELSE << >>)
          \o RowPairs(Tail(rows), code_col, name_col)

FramePairs(frame, code_col, name_col) ==
  IF code_col \in frame.columns /\ name_col \in frame.columns
  THEN RowPairs(frame.rows, code_col, name_col)
  ELSE << >>

\* counter[name] += 1 on an insertion-ordered counter: a sequence of
\* << name, count >> in the order the names were first counted
RECURSIVE Increment(_, _)
Increment(counter, name) ==
  IF counter = << >> THEN << << name, 1 >> >>
  ELSE IF Head(counter)[1] = name
       THEN << << name, Head(counter)[2] + 1 >> >> \o Tail(counter)
       ELSE << Head(counter) >> \o Increment(Tail(counter), name)

\* the last entry with the largest count
RECURSIVE MaxEntryLast(_, _)
MaxEntryLast(counter, best) ==
  IF counter = << >> THEN best
  ELSE MaxEntryLast(Tail(counter),
                    IF Head(counter)[2] >= best[2] THEN Head(counter) ELSE best)

\* max(counter.items(), key=lambda x: x[1])[0]: the first entry with the
\* largest count
RECURSIVE MaxEntry(_, _)
MaxEntry(counter, best) ==
  IF counter = << >> THEN best
  ELSE MaxEntry(Tail(counter),
                IF Head(counter)[2] > best[2] THEN Head(counter) ELSE best)

MostFrequent(counter) == MaxEntry(Tail(counter), Head(counter))[1]

\* the ordered counter of the second components of the pairs whose first
\* component is key
RECURSIVE CountFor(_, _, _)
CountFor(pairs, key, counter) ==
  IF pairs = << >> THEN counter
  ELSE CountFor(Tail(pairs), key,
                IF Head(pairs)[1] = key THEN Increment(counter, Head(pairs)[2])
                ELSE counter)

\* one domain: code -> most frequent name
MasterMap(dfs, code_col, name_col) ==
  LET pairs == Flatten([i \in 1..Len(dfs) |-> FramePairs(dfs[i], code_col, name_col)])
      codes == { pairs[i][1] : i \in 1..Len(pairs) }
  IN [code \in codes |-> MostFrequent(CountFor(pairs, code, << >>))]

build_master_maps(dfs) ==
  [dept |-> MasterMap(dfs, COL_DEPT_CODE, COL_DEPT_NAME),
   qual |-> MasterMap(dfs, COL_QUAL_CODE, COL_QUAL_NAME),
   pos |-> MasterMap(dfs, COL_POS_CODE, COL_POS_NAME)]

-----------------------------------------------------------------------------
(* consolidate_data *)

DEFAULT_PRIORITY == 10
EXISTING_PRIORITY == 0

TargetColumnSet == Range(TARGET_COLUMNS)

\* df[col] = value: the column is added or overwritten in every row
SetColumn(frame, col, value) ==
  Frame(frame.columns \cup {col},
        [i \in 1..Len(frame.rows) |->
           [c \in frame.columns \cup {col} |->
              IF c = col THEN value ELSE frame.rows[i][c]]])

\* pd.concat(all_dfs, ignore_index=True, sort=False): the union of the columns,
\* a cell of a column the row's frame lacks is NaN
Concat(dfs) ==
  LET cols == UNION { dfs[i].columns : i \in 1..Len(dfs) }
      widen(frame) == [i \in 1..Len(frame.rows) |->
                         [c \in cols |-> IF c \in frame.columns
                                         THEN frame.rows[i][c] ELSE NaN]]
  IN Frame(cols, Flatten([i \in 1..Len(dfs) |-> widen(dfs[i])]))

\* sort_values(col) on an integer column.  pandas sorts with quicksort, which
\* promises no order among rows of equal value; the model keeps them in their
\* order, as the sort does on the short, already ordered columns it is given.
RECURSIVE InsertByInt(_, _, _)
InsertByInt(sorted, row, col) ==
  IF sorted = << >> THEN << row >>
  ELSE IF row[col] < Head(sorted)[col] THEN << row >> \o sorted
  ELSE << Head(sorted) >> \o InsertByInt(Tail(sorted), row, col)

RECURSIVE SortByInt(_, _)
SortByInt(rows, col) ==
  IF rows = << >> THEN << >>
  ELSE InsertByInt(SortByInt(SubSeq(rows, 1, Len(rows) - 1), col),
                   rows[Len(rows)], col)

NoFrame == Frame({}, << >>)   \* stands for None

\* every frame gets the priority, also one that carried another priority
WithPriority(dfs, priority) ==
  [i \in 1..Len(dfs) |-> SetColumn(dfs[i], COL_PRIORITY, priority)]

consolidate_data(dfs, priority) ==
  IF dfs = << >> THEN NoFrame
  ELSE LET concatenated == Concat(WithPriority(dfs, priority))
           cols == concatenated.columns \cup TargetColumnSet
           filled == [i \in 1..Len(concatenated.rows) |->
                        [c \in cols |-> IF c \in concatenated.columns
                                        THEN concatenated.rows[i][c]
                                        ELSE Text("")]]
       IN Frame(cols, SortByInt(filled, COL_PRIORITY))

-----------------------------------------------------------------------------
(* build_detail_table *)

MERGE_KEY == "__merge_key__"

\* emp_no and emp_no != "nan" and emp_no != "": a text that names something
Present(s) == s # "" /\ s # "nan"

\* str(row.get(col, "")).strip(); a missing cell reads "nan"
RowText(row, col) == IF col \in DOMAIN row THEN Strip(Str(row[col])) ELSE ""

\* name_to_emp: the numbers seen with each name, on rows that have both
NameToEmp(rows) ==
  LET both == { i \in 1..Len(rows) : /\ Present(RowText(rows[i], COL_EMP_NO))
                                     /\ Present(RowText(rows[i], COL_NAME)) }
      names == { RowText(rows[i], COL_NAME) : i \in both }
  IN [name \in names |->
        { RowText(rows[i], COL_EMP_NO) :
            i \in { j \in both : RowText(rows[j], COL_NAME) = name } }]

\* emp_counts for one name: for every row of the pool with that name and one of
\* its numbers, emp_counts[row_emp] += 1, in pool order
RECURSIVE EmpCounts(_, _, _, _)
EmpCounts(rows, name, emp_nos, counter) ==
  IF rows = << >> THEN counter
  ELSE LET row_emp == RowText(Head(rows), COL_EMP_NO)
           row_name == RowText(Head(rows), COL_NAME)
       IN EmpCounts(Tail(rows), name, emp_nos,
                    IF row_name = name /\ row_emp \in emp_nos
                    THEN Increment(counter, row_emp) ELSE counter)

\* the number counted first, whatever the counts
PrimaryEmpFirstSeen(rows, name, emp_nos) ==
  IF Cardinality(emp_nos) > 1
  THEN EmpCounts(rows, name, emp_nos, << >>)[1][1]
  ELSE CHOOSE e \in emp_nos : TRUE

\* name_to_primary_emp: the only number of the name, or the most frequent one
PrimaryEmp(rows, name, emp_nos) ==
  IF Cardinality(emp_nos) > 1
  THEN MostFrequent(EmpCounts(rows, name, emp_nos, << >>))
  ELSE CHOOSE e \in emp_nos : TRUE

NameToPrimaryEmp(rows) ==
  LET name_to_emp == NameToEmp(rows)
  IN [name \in DOMAIN name_to_emp |-> PrimaryEmp(rows, name, name_to_emp[name])]

\* the key of a row (the column written first by create_merge_key is
\* overwritten by this one); row_id is id(row)
update_merge_key(row, row_id, name_to_primary_emp) ==
  LET emp_no == RowText(row, COL_EMP_NO)
      name == RowText(row, COL_NAME)
  IN IF name \in DOMAIN name_to_primary_emp
     THEN "emp:" \o name_to_primary_emp[name]
     ELSE IF Present(emp_no) THEN "emp:" \o emp_no
     ELSE IF Present(name) THEN "name:" \o name
     ELSE "unknown:" \o ToString(row_id)

\* combined["__merge_key__"] = combined.apply(update_merge_key, axis=1);
\* ids[i] is id(row) of the row object handed to the call for row i
WithMergeKeys(frame, ids) ==
  LET name_to_primary_emp == NameToPrimaryEmp(frame.rows)
      cols == frame.columns \cup {MERGE_KEY}
  IN Frame(cols,
           [i \in 1..Len(frame.rows) |->
              [c \in cols |->
                 IF c = MERGE_KEY
                 THEN update_merge_key(frame.rows[i], ids[i], name_to_primary_emp)
                 ELSE frame.rows[i][c]]])

\* groupby("__merge_key__", sort=False): the keys in order of first appearance
RECURSIVE GroupKeys(_, _)
GroupKeys(rows, keys) ==
  IF rows = << >> THEN keys
  ELSE GroupKeys(Tail(rows),
                 IF InList(Head(rows)[MERGE_KEY], keys) THEN keys
                 ELSE Append(keys, Head(rows)[MERGE_KEY]))

RECURSIVE RowsWithKey(_, _)
RowsWithKey(rows, key) ==
  IF rows = << >> THEN << >>
  ELSE (IF Head(rows)[MERGE_KEY] = key THEN << Head(rows) >> ELSE << >>)
       \o RowsWithKey(Tail(rows), key)

\* the group of a key, sorted by priority
GroupOf(frame, key) == SortByInt(RowsWithKey(frame.rows, key), COL_PRIORITY)

\* values = group[col].dropna(); values[values.astype(str).str.strip() != ""]
RECURSIVE NonEmptyValues(_, _)
NonEmptyValues(group, col) ==
  IF group = << >> THEN << >>
  ELSE (IF notna(Head(group)[col]) /\ Strip(Str(Head(group)[col])) # ""
        THEN << Head(group)[col] >> ELSE << >>)
       \o NonEmptyValues(Tail(group), col)

\* the last non-empty value of the group instead of the first
SelectValueLast(group, columns_of_group, col) ==
  IF col \in columns_of_group
  THEN LET values == NonEmptyValues(group, col)
       IN IF Len(values) > 0
          THEN (IF col \in DATE_COLUMNS
                THEN Text(convert_excel_date(values[Len(values)]))
                ELSE values[Len(values)])
          ELSE Text("")
  ELSE Text("")

\* the value of one column of the merged row: the first non-empty value of the
\* group, a date column converted; "" when the group has none
SelectValue(group, columns_of_group, col) ==
  IF col \in columns_of_group
  THEN LET values == NonEmptyValues(group, col)
       IN IF Len(values) > 0
          THEN (IF col \in DATE_COLUMNS THEN Text(convert_excel_date(values[1]))
                ELSE values[1])
          ELSE Text("")
  ELSE Text("")

SelectFields(group, columns_of_group) ==
  [col \in TargetColumnSet |-> SelectValue(group, columns_of_group, col)]

\* the name of a code domain is taken from the master map when the selected code
\* is true and, as trimmed text, a key of the map
EnrichedName(row_data, code_col, name_col, master_map) ==
  IF Truthy(row_data[code_col]) /\ Strip(Str(row_data[code_col])) \in DOMAIN master_map
  THEN Text(master_map[Strip(Str(row_data[code_col]))])
  ELSE row_data[name_col]

Enrich(row_data, maps) ==
  [col \in DOMAIN row_data |->
     IF col = COL_DEPT_NAME
     THEN EnrichedName(row_data, COL_DEPT_CODE, COL_DEPT_NAME, maps.dept)
     ELSE IF col = COL_QUAL_NAME
     THEN EnrichedName(row_data, COL_QUAL_CODE, COL_QUAL_NAME, maps.qual)
     ELSE IF col = COL_POS_NAME
     THEN EnrichedName(row_data, COL_POS_CODE, COL_POS_NAME, maps.pos)
     ELSE row_data[col]]

\* one row per group: field selection, then the names from the master maps
MergeGroup(group, columns_of_group, maps) ==
  Enrich(SelectFields(group, columns_of_group), maps)

\* the derived columns: tenure, normalised gender, the number as text
Derive(row_data, now) ==
  [col \in DOMAIN row_data \cup {COL_TENURE} |->
     IF col = COL_TENURE
     THEN Text(calculate_years_of_service(Str(row_data[COL_HIRE_DATE]), now))
     ELSE IF col = COL_GENDER THEN Text(normalize_gender(row_data[COL_GENDER]))
     ELSE IF col = COL_EMP_NO THEN Text(Str(row_data[COL_EMP_NO]))
     ELSE row_data[col]]

\* Python's order of texts, on the characters the model's numbers use
ASCII_ORDER ==
  " #-./0123456789:;ABCDEFGHIJKLMNOPQRSTUVWXYZ_abcdefghijklmnopqrstuvwxyz"

RECURSIVE TextLess(_, _)
TextLess(a, b) ==
  IF b = "" THEN FALSE
  ELSE IF a = "" THEN TRUE
  ELSE IF Head(a) = Head(b) THEN TextLess(Tail(a), Tail(b))
  ELSE IndexOf(Head(a), ASCII_ORDER, 1) < IndexOf(Head(b), ASCII_ORDER, 1)

\* sort_values on a text column, rows of equal text kept in order
RECURSIVE InsertByText(_, _, _)
InsertByText(sorted, row, col) ==
  IF sorted = << >> THEN << row >>
  ELSE IF TextLess(Str(row[col]), Str(Head(sorted)[col])) THEN << row >> \o sorted
  ELSE << Head(sorted) >> \o InsertByText(Tail(sorted), row, col)

RECURSIVE SortByText(_, _)
SortByText(rows, col) ==
  IF rows = << >> THEN << >>
  ELSE InsertByText(SortByText(SubSeq(rows, 1, Len(rows) - 1), col),
                    rows[Len(rows)], col)

\* keyed is the pool with its __merge_key__ column; the returned detail_df
build_detail_table(keyed, maps, now) ==
  LET keys == GroupKeys(keyed.rows, << >>)
      merged == [g \in 1..Len(keys) |->
                        Derive(MergeGroup(GroupOf(keyed, keys[g]), keyed.columns, maps),
                               now)]
  IN Frame(TargetColumnSet \cup {COL_TENURE}, SortByText(merged, COL_EMP_NO))

-----------------------------------------------------------------------------
(* SpecColumns: normalize_column_names applied to bounded header rows. *)

\* every label of COLUMN_SYNONYMS
AllSynonyms ==
  UNION { { COLUMN_SYNONYMS[i].synonyms[j] : j \in 1..Len(COLUMN_SYNONYMS[i].synonyms) } :
          i \in 1..Len(COLUMN_SYNONYMS) }

\* header cells: missing, empty, free labels (one of them ending in _1, one
\* shaped like a synthesized name), two labels of one canonical column
HeaderCells ==
  { NaN, Text(""), Text("a"), Text("a_1"), Text("col_0"), Text(" a "),
    Text(COL_NAME), Text("name") }

NoTable == << >>

\* the values of the variables a specification does not use
IdleColumns == columns = << >> /\ result = << >>
IdleHeader == df = NoTable /\ header_row_idx = NotFound
IdleMaps == dept_map = EmptyMap /\ qual_map = EmptyMap /\ pos_map = EmptyMap
IdleDetail ==
  /\ combined = NoFrame
  /\ grouped = << >>
  /\ result_rows = << >>
  /\ detail_df_all = NoFrame
IdleFolders == input_dir = << >> /\ output_dir = << >>
IdleGender == gender_cell = NaN /\ gender = ""
IdleSheet == normalized_df = NoFrame
IdleViews ==
  /\ detail_df = NoFrame
  /\ master_df = NoFrame
  /\ retired_df = NoFrame
  /\ headcount_df = << >>
IdlePipeline ==
  all_dfs = << >> /\ IdleMaps /\ IdleDetail /\ today = NoDate /\ IdleFolders
  /\ IdleGender /\ IdleSheet /\ IdleViews

InitColumns ==
  /\ pc = "columns"
  /\ columns \in SeqsUpTo(HeaderCells, MaxCols)
                   \cup { << Text(l) >> : l \in AllSynonyms }
  /\ result = << >>
  /\ IdleHeader
  /\ IdlePipeline

NormalizeColumns ==
  /\ pc = "columns"
  /\ result' = normalize_column_names(columns)
  /\ pc' = "columns_done"
  /\ UNCHANGED << columns, header_vars, all_dfs, map_vars, detail_vars, today, folder_vars,
               gender_vars, normalized_df, view_vars >>

NextColumns == NormalizeColumns

SpecColumns == InitColumns /\ [][NextColumns]_vars

-----------------------------------------------------------------------------
(* SpecHeader: detect_header_row applied to bounded raw tables. *)

\* raw cells: missing, a free text, a padded label, a number
RawCells == { NaN, Text("x"), Text(" " \o COL_NAME \o " "), Num("7") }

RawRows == [1..2 -> RawCells]

FillerRow == << Text("x"), NaN >>
LabelRow == << NaN, Text(COL_EMP_NO) >>

\* a table of n rows whose only row with a label is row h (0-based); none if h = n
LongTable(n, h) == [i \in 1..n |-> IF i = h + 1 THEN LabelRow ELSE FillerRow]

InitHeader ==
  /\ pc = "header"
  /\ df \in SeqsUpTo(RawRows, MaxRows)
              \cup { LongTable(n, h) : n \in (MAX_SCAN - 1)..(MAX_SCAN + ScanSlack),
                                       h \in 0..(MAX_SCAN + ScanSlack) }
  /\ header_row_idx = NotFound
  /\ IdleColumns
  /\ IdlePipeline

DetectHeaderRow ==
  /\ pc = "header"
  /\ header_row_idx' = detect_header_row(df, MAX_SCAN)
  /\ pc' = "header_done"
  /\ UNCHANGED << df, column_vars, all_dfs, map_vars, detail_vars, today, folder_vars,
               gender_vars, normalized_df, view_vars >>

NextHeader == DetectHeaderRow

SpecHeader == InitHeader /\ [][NextHeader]_vars

-----------------------------------------------------------------------------
(* C6: normalize_column_names returns as many names as it was given labels,
   and the names are pairwise distinct. *)
C6_UniqueNames ==
  pc = "columns_done" =>
    /\ Len(result) = Len(columns)
    /\ \A i, j \in 1..Len(result) : i # j => result[i] # result[j]

(* C7: a single label taken from the synonym list of a canonical column is
   normalised to that canonical column. *)
C7_SynonymYieldsCanonical ==
  pc = "columns_done" =>
    \A f \in 1..Len(COLUMN_SYNONYMS) :
      \A l \in 1..Len(COLUMN_SYNONYMS[f].synonyms) :
        columns = << Text(COLUMN_SYNONYMS[f].synonyms[l]) >>
          => result = << COLUMN_SYNONYMS[f].canon >>

\* the rows within the scan that have a cell whose trimmed text is a label
LabelledRows ==
  { i \in 0..(IntMin(MAX_SCAN, Len(df)) - 1) :
      \E c \in 1..Len(df[i + 1]) :
        /\ notna(df[i + 1][c])
        /\ Strip(Str(df[i + 1][c])) \in AllSynonyms }

(* C8: detect_header_row returns NotFound for an empty table and for a table
   with no label among its first min(50, rows) rows, and otherwise the smallest
   index among those rows of a row that has a cell whose trimmed text is a
   label. *)
C8_FirstHeaderRow ==
  pc = "header_done" =>
    header_row_idx = IF LabelledRows = {} THEN NotFound ELSE Min(LabelledRows)

\* a table of two rows whose second row is the first with a label
C8_Witness ==
  /\ pc = "header_done"
  /\ Len(df) = 2
  /\ LabelledRows = {1}
  /\ header_row_idx = 1

\* a table of more than 50 rows whose only label is in the row after the scan
C8_WitnessBeyondScan ==
  /\ pc = "header_done"
  /\ Len(df) > MAX_SCAN
  /\ RowHasSynonym(df[MAX_SCAN + 1])
  /\ header_row_idx = NotFound

-----------------------------------------------------------------------------
(* The steps of a run after reading, as actions on the variables of the run *)

\* dept_map, qual_map, pos_map = build_master_maps(all_dfs)
BuildMasterMaps(from, to) ==
  /\ pc = from
  /\ dept_map' = build_master_maps(all_dfs).dept
  /\ qual_map' = build_master_maps(all_dfs).qual
  /\ pos_map' = build_master_maps(all_dfs).pos
  /\ pc' = to
  /\ UNCHANGED << column_vars, header_vars, all_dfs, detail_vars, today, folder_vars,
               gender_vars, normalized_df, view_vars >>

Maps == [dept |-> dept_map, qual |-> qual_map, pos |-> pos_map]

\* the rows whose key is the identity of the row object
UnknownRows(rows) ==
  { i \in 1..Len(rows) :
      /\ RowText(rows[i], COL_NAME) \notin DOMAIN NameToPrimaryEmp(rows)
      /\ ~Present(RowText(rows[i], COL_EMP_NO))
      /\ ~Present(RowText(rows[i], COL_NAME)) }

(* id(row) is the address of the object pandas hands to the function: one
   object reused for every row, or a fresh one per row whose address a freed
   one may take again.  Any assignment of addresses to the rows can result;
   the rows whose key does not use it all get address 1, and the others are
   numbered in order of first use. *)
RECURSIVE IdSeqs(_, _, _, _)
IdSeqs(n, unknown, i, used) ==
  IF i > n THEN { << >> }
  ELSE IF i \notin unknown
       THEN { << 1 >> \o rest : rest \in IdSeqs(n, unknown, i + 1, used) }
       ELSE UNION { { << k >> \o rest :
                        rest \in IdSeqs(n, unknown, i + 1, IF k > used THEN k ELSE used) } :
                    k \in 1..(used + 1) }

RowIds(rows) == IdSeqs(Len(rows), UnknownRows(rows), 1, 0)

\* detail_df_all = build_detail_table(combined, dept_map, qual_map, pos_map)
BuildDetailTable(from, to) ==
  /\ pc = from
  /\ combined.rows # << >>
  /\ \E ids \in RowIds(combined.rows) :
     \E keyed \in { WithMergeKeys(combined, ids) } :
       LET keys == GroupKeys(keyed.rows, << >>)
       IN /\ combined' = keyed
          /\ grouped' = keys
          /\ result_rows' = [g \in 1..Len(keys) |->
                               MergeGroup(GroupOf(keyed, keys[g]), keyed.columns, Maps)]
          /\ detail_df_all' = build_detail_table(keyed, Maps, today)
  /\ pc' = to
  /\ UNCHANGED << column_vars, header_vars, all_dfs, map_vars, today, folder_vars,
               gender_vars, normalized_df, view_vars >>

-----------------------------------------------------------------------------
(* SpecMaps: build_master_maps applied to bounded lists of frames. *)

MapRow(code, name) ==
  [c \in {COL_EMP_NO, COL_DEPT_CODE, COL_DEPT_NAME} |->
     IF c = COL_DEPT_CODE THEN code ELSE IF c = COL_DEPT_NAME THEN name
     ELSE Text("1001")]

\* two names for one code
MapRows == { MapRow(Text("10"), Text("Sales")), MapRow(Text("10"), Text("Old")) }

\* a frame with a pair without a name and a padded pair
PaddedFrame ==
  Frame({COL_EMP_NO, COL_DEPT_CODE, COL_DEPT_NAME},
        << MapRow(Text(" 10"), NaN), MapRow(Text(" 10 "), Text(" Old ")) >>)

\* a frame with a code column and no name column, and a frame of the position
\* domain with a numeric code
CodeOnlyFrame ==
  Frame({COL_EMP_NO, COL_DEPT_CODE},
        << [c \in {COL_EMP_NO, COL_DEPT_CODE} |-> Text("10")] >>)

PositionFrame ==
  Frame({COL_NAME, COL_POS_CODE, COL_POS_NAME},
        << [c \in {COL_NAME, COL_POS_CODE, COL_POS_NAME} |->
              IF c = COL_POS_CODE THEN Num("0") ELSE Text(" Chief ")] >>)

MapFrames ==
  { Frame({COL_EMP_NO, COL_DEPT_CODE, COL_DEPT_NAME}, rows) :
      rows \in SeqsUpTo(MapRows, MaxFrameRows) }
  \cup { PaddedFrame, CodeOnlyFrame, PositionFrame }

Dates == { [year |-> 2026, month |-> 3, day |-> 31], [year |-> 2026, month |-> 4, day |-> 1] }

InitMaps ==
  /\ pc = "maps"
  /\ all_dfs \in SeqsUpTo(MapFrames, MaxFrames)
  /\ IdleColumns /\ IdleHeader /\ IdleMaps /\ IdleDetail /\ IdleFolders
  /\ IdleGender /\ IdleSheet /\ IdleViews
  /\ today = NoDate

NextMaps == BuildMasterMaps("maps", "maps_done")

SpecMaps == InitMaps /\ [][NextMaps]_vars

-----------------------------------------------------------------------------
(* SpecDetail: build_detail_table applied to bounded pools, with the master
   maps built from the same rows. *)

PoolColumns == TargetColumnSet \cup {COL_SOURCE, COL_PRIORITY}

\* a row of a pool: the given cells, "" in the other canonical columns
PoolRow(cells, priority) ==
  [c \in PoolColumns |->
     IF c = COL_PRIORITY THEN priority
     ELSE IF c = COL_SOURCE THEN Text("book.xlsx/Sheet1")
     ELSE IF c \in DOMAIN cells THEN cells[c]
     ELSE Text("")]

Cells2(c1, v1, c2, v2) == [c \in {c1, c2} |-> IF c = c1 THEN v1 ELSE v2]

\* rows that differ in number and name only
KeyRows ==
  { PoolRow(Cells2(COL_EMP_NO, n, COL_NAME, m), DEFAULT_PRIORITY) :
      n \in {NaN, Text("1001"), Text("1002")}, m \in {NaN, Text("A"), Text("B")} }

\* rows of one employee that differ in priority and in the other columns
FieldCells ==
  { [c \in {COL_DEPT_CODE, COL_DEPT_NAME} |-> IF c = COL_DEPT_CODE THEN p[1] ELSE p[2]] :
      p \in { << Text("10"), Text("Sales") >>, << Text("10"), Text("Old") >>,
              << Num("0"), Text("Sales") >>, << Num("0"), Text("Old") >>,
              << NaN, Text("Old") >>, << Text(" 10 "), NaN >> } }
  \cup
  { [c \in {COL_GENDER, COL_HIRE_DATE, COL_WORKPLACE} |->
       IF c = COL_GENDER THEN p[1] ELSE IF c = COL_HIRE_DATE THEN p[2] ELSE p[3]] :
      p \in { << Text("M"), Num("45000"), Text("Tokyo") >>,
              << Text(" x "), Text("2020/04/01"), Text(" ") >>,
              << NaN, Text("soon"), Text("Osaka") >> } }

FieldRows ==
  { PoolRow([c \in DOMAIN cells \cup {COL_EMP_NO, COL_NAME} |->
               IF c = COL_EMP_NO THEN Text("1001")
               ELSE IF c = COL_NAME THEN Text("A") ELSE cells[c]], p) :
      cells \in FieldCells, p \in {EXISTING_PRIORITY, DEFAULT_PRIORITY} }

IsSortedByPriority(rows) ==
  \A i \in 1..(Len(rows) - 1) : rows[i][COL_PRIORITY] <= rows[i + 1][COL_PRIORITY]

Pools(universe, max) ==
  { rows \in SeqsUpTo(universe, max) : rows # << >> /\ IsSortedByPriority(rows) }

InitDetail ==
  /\ pc = "pool"
  /\ \E rows \in Pools(KeyRows, MaxPool) \cup Pools(FieldRows, MaxFieldPool) :
       /\ combined = Frame(PoolColumns, rows)
       /\ all_dfs = << Frame(PoolColumns, rows) >>
  /\ grouped = << >>
  /\ result_rows = << >>
  /\ detail_df_all = NoFrame
  /\ today \in Dates
  /\ IdleColumns /\ IdleHeader /\ IdleMaps /\ IdleFolders
  /\ IdleGender /\ IdleSheet /\ IdleViews

NextDetail ==
  \/ BuildMasterMaps("pool", "detail")
  \/ BuildDetailTable("detail", "detail_done")

SpecDetail == InitDetail /\ [][NextDetail]_vars

-----------------------------------------------------------------------------
(* Properties of build_master_maps, stated on the frames the maps were built
   from. *)

\* the observations of a domain: the << frame, row >> positions that carry a
\* code and a name, and their order
Observations(code_col, name_col) ==
  UNION { { << f, r >> :
              r \in { q \in 1..Len(all_dfs[f].rows) :
                        /\ code_col \in all_dfs[f].columns
                        /\ name_col \in all_dfs[f].columns
                        /\ CellText(all_dfs[f].rows[q], code_col) # ""
                        /\ CellText(all_dfs[f].rows[q], name_col) # "" } } :
          f \in 1..Len(all_dfs) }

ObservedBefore(p, q) == p[1] < q[1] \/ (p[1] = q[1] /\ p[2] <= q[2])

ObservedCode(p, code_col) == CellText(all_dfs[p[1]].rows[p[2]], code_col)

ObservedNames(code, code_col, name_col) ==
  { CellText(all_dfs[p[1]].rows[p[2]], name_col) :
      p \in { q \in Observations(code_col, name_col) : ObservedCode(q, code_col) = code } }

ObservationsOf(code, name, code_col, name_col) ==
  { p \in Observations(code_col, name_col) :
      /\ ObservedCode(p, code_col) = code
      /\ CellText(all_dfs[p[1]].rows[p[2]], name_col) = name }

FirstObservation(code, name, code_col, name_col) ==
  CHOOSE p \in ObservationsOf(code, name, code_col, name_col) :
    \A q \in ObservationsOf(code, name, code_col, name_col) : ObservedBefore(p, q)

\* name beats other: more observations, or as many and observed first
Beats(code, name, other, code_col, name_col) ==
  LET n == Cardinality(ObservationsOf(code, name, code_col, name_col))
      m == Cardinality(ObservationsOf(code, other, code_col, name_col))
  IN \/ n > m
     \/ /\ n = m
        /\ ObservedBefore(FirstObservation(code, name, code_col, name_col),
                          FirstObservation(code, other, code_col, name_col))

MapIsMajority(master_map, code_col, name_col) ==
  /\ DOMAIN master_map =
       { ObservedCode(p, code_col) : p \in Observations(code_col, name_col) }
  /\ \A code \in DOMAIN master_map :
       /\ master_map[code] \in ObservedNames(code, code_col, name_col)
       /\ \A other \in ObservedNames(code, code_col, name_col) :
            Beats(code, master_map[code], other, code_col, name_col)

(* C9: every code observed with a name is mapped to its most frequent name,
   the first observed among the most frequent ones, in each of the three
   domains; a domain without a code/name pair has the empty map. *)
C9_MostFrequentName ==
  pc = "maps_done" =>
    /\ MapIsMajority(dept_map, COL_DEPT_CODE, COL_DEPT_NAME)
    /\ MapIsMajority(qual_map, COL_QUAL_CODE, COL_QUAL_NAME)
    /\ MapIsMajority(pos_map, COL_POS_CODE, COL_POS_NAME)

\* maps built where a code has two names and the count decides against the
\* name observed first, beside a domain without any pair
C9_Witness ==
  /\ pc = "maps_done"
  /\ qual_map = EmptyMap
  /\ \E code \in DOMAIN dept_map :
       \E other \in ObservedNames(code, COL_DEPT_CODE, COL_DEPT_NAME) :
         /\ other # dept_map[code]
         /\ ObservedBefore(FirstObservation(code, other, COL_DEPT_CODE, COL_DEPT_NAME),
                           FirstObservation(code, dept_map[code], COL_DEPT_CODE, COL_DEPT_NAME))

\* maps built where two names of a code are observed equally often
C9_WitnessTie ==
  /\ pc = "maps_done"
  /\ \E code \in DOMAIN dept_map :
       \E other \in ObservedNames(code, COL_DEPT_CODE, COL_DEPT_NAME) :
         /\ other # dept_map[code]
         /\ Cardinality(ObservationsOf(code, other, COL_DEPT_CODE, COL_DEPT_NAME))
              = Cardinality(ObservationsOf(code, dept_map[code], COL_DEPT_CODE, COL_DEPT_NAME))

-----------------------------------------------------------------------------
(* Properties of build_detail_table, stated on the keyed pool (combined), the
   groups (grouped), the merged rows (result_rows) and the returned table
   (detail_df_all). *)

PoolNumber(i) == RowText(combined.rows[i], COL_EMP_NO)
PoolName(i) == RowText(combined.rows[i], COL_NAME)
PoolKey(i) == combined.rows[i][MERGE_KEY]
PoolIndex == 1..Len(combined.rows)

\* the rows that carry the name and the number
RowsOf(name, number) ==
  { k \in PoolIndex : PoolName(k) = name /\ PoolNumber(k) = number }

FirstRowOf(name, number) ==
  CHOOSE k \in RowsOf(name, number) : \A l \in RowsOf(name, number) : k <= l

NumbersOf(name) ==
  { PoolNumber(k) : k \in { l \in PoolIndex : PoolName(l) = name /\ Present(PoolNumber(l)) } }

\* the most frequent number of the name, the first seen among the most frequent
MajorityNumber(name) ==
  CHOOSE n \in NumbersOf(name) :
    \A m \in NumbersOf(name) :
      \/ Cardinality(RowsOf(name, n)) > Cardinality(RowsOf(name, m))
      \/ /\ Cardinality(RowsOf(name, n)) = Cardinality(RowsOf(name, m))
         /\ FirstRowOf(name, n) <= FirstRowOf(name, m)

\* two records with one name and two numbers
Aliases(i, j) ==
  /\ Present(PoolName(i)) /\ PoolName(i) = PoolName(j)
  /\ Present(PoolNumber(i)) /\ Present(PoolNumber(j))
  /\ PoolNumber(i) # PoolNumber(j)

(* C2: two records with the same non-empty name and distinct non-empty
   numbers both get the key emp:<n>, n the most frequent number among the
   records of that name, the first seen in pool order on a tie. *)
C2_AliasesShareMajorityKey ==
  pc = "detail_done" =>
    \A i, j \in PoolIndex :
      Aliases(i, j) =>
        /\ PoolKey(i) = "emp:" \o MajorityNumber(PoolName(i))
        /\ PoolKey(j) = PoolKey(i)

\* keys assigned where the count decides against the number seen first
C2_Witness ==
  /\ pc = "detail_done"
  /\ \E i, j \in PoolIndex :
       /\ Aliases(i, j)
       /\ FirstRowOf(PoolName(i), PoolNumber(i)) < FirstRowOf(PoolName(i), PoolNumber(j))
       /\ PoolKey(i) = "emp:" \o PoolNumber(j)

(* C3: after key assignment two records that carry the same non-empty number
   have the same key, whatever their names. *)
C3_SameNumberSameKey ==
  pc = "detail_done" =>
    \A i, j \in PoolIndex :
      (Present(PoolNumber(i)) /\ PoolNumber(i) = PoolNumber(j)) => PoolKey(i) = PoolKey(j)

\* a value that field selection keeps
NonEmpty(v) == notna(v) /\ Strip(Str(v)) # ""

GroupIndex == 1..Len(grouped)

\* the rows of group g, and the one whose priority value is below all others
Members(g) == { i \in PoolIndex : PoolKey(i) = grouped[g] }

LowestOf(g) ==
  { i \in Members(g) :
      \A j \in Members(g) \ {i} :
        combined.rows[i][COL_PRIORITY] < combined.rows[j][COL_PRIORITY] }

\* the place of the merged row of group g in the returned table, which is
\* ordered by the number as text, equal numbers in the order of the groups
FinalIndex(g) ==
  1 + Cardinality({ h \in GroupIndex :
                      \/ TextLess(Str(result_rows[h][COL_EMP_NO]), Str(result_rows[g][COL_EMP_NO]))
                      \/ /\ Str(result_rows[h][COL_EMP_NO]) = Str(result_rows[g][COL_EMP_NO])
                         /\ h < g })

Resolved(g) == detail_df_all.rows[FinalIndex(g)]

CODE_NAME_COLUMNS == {COL_DEPT_NAME, COL_QUAL_NAME, COL_POS_NAME}

(* C4 as stated: whenever the record with the lowest priority value of a group
   has a non-empty value for a canonical field, the resolved record has that
   value for the field. *)
C4_LowestPriorityValueKept ==
  pc = "detail_done" =>
    \A g \in GroupIndex : \A i \in LowestOf(g) : \A col \in TargetColumnSet :
      NonEmpty(combined.rows[i][col]) => Resolved(g)[col] = combined.rows[i][col]

(* C4: whenever one record of a group has a priority value below all the
   others and a non-empty value for a canonical field other than the three
   names of the code domains, the resolved record has that value for the
   field: converted by convert_excel_date for a date field, by
   normalize_gender for the gender, and as text for the number. *)
C4_LowestPriorityValueWins ==
  pc = "detail_done" =>
    \A g \in GroupIndex : \A i \in LowestOf(g) :
      \A col \in TargetColumnSet \ CODE_NAME_COLUMNS :
        LET v == combined.rows[i][col]
        IN NonEmpty(v) =>
             Resolved(g)[col] =
               IF col \in DATE_COLUMNS THEN Text(convert_excel_date(v))
               ELSE IF col = COL_GENDER THEN Text(normalize_gender(v))
               ELSE IF col = COL_EMP_NO THEN Text(Str(v))
               ELSE v

\* a group merged where a record of a higher priority value has another
\* non-empty value for a field than the record of the lowest one
C4_Witness ==
  /\ pc = "detail_done"
  /\ \E g \in GroupIndex : \E i \in LowestOf(g) : \E j \in Members(g) \ {i} :
       /\ NonEmpty(combined.rows[i][COL_WORKPLACE])
       /\ NonEmpty(combined.rows[j][COL_WORKPLACE])
       /\ combined.rows[j][COL_WORKPLACE] # combined.rows[i][COL_WORKPLACE]
       /\ Resolved(g)[COL_WORKPLACE] = combined.rows[i][COL_WORKPLACE]

\* the merged row of group g before the names are taken from the maps
Selected(g) == SelectFields(GroupOf(combined, grouped[g]), combined.columns)

NameFromCodeMap(g, code_col, name_col, master_map) ==
  LET code == result_rows[g][code_col]
  IN IF NonEmpty(code) /\ Strip(Str(code)) \in DOMAIN master_map
     THEN result_rows[g][name_col] = Text(master_map[Strip(Str(code))])
     ELSE result_rows[g][name_col] = Selected(g)[name_col]

(* C10: for every merged row and each code domain, when the code is non-empty
   and a key of the domain's map the name is the map's name for the code,
   otherwise it is the name chosen by field selection. *)
C10_NameFromCodeMap ==
  pc = "detail_done" =>
    \A g \in GroupIndex :
      /\ NameFromCodeMap(g, COL_DEPT_CODE, COL_DEPT_NAME, dept_map)
      /\ NameFromCodeMap(g, COL_QUAL_CODE, COL_QUAL_NAME, qual_map)
      /\ NameFromCodeMap(g, COL_POS_CODE, COL_POS_NAME, pos_map)

-----------------------------------------------------------------------------
(* extract_active_employees, extract_master_table, extract_retired_employees *)

extract_active_employees(detail) ==
  IF COL_RETIRE_DATE \notin detail.columns THEN detail
  ELSE Frame(detail.columns,
             Filter(detail.rows,
                    { row \in Range(detail.rows) :
                        Strip(Str(row[COL_RETIRE_DATE])) = "" }))

\* "社員番号", "氏名", "フリガナ", "生年月日", "性別", "入社年月日", "勤続年数"
master_columns ==
  << COL_EMP_NO, COL_NAME, COL_KANA, COL_BIRTH_DATE, COL_GENDER, COL_HIRE_DATE,
     COL_TENURE >>

\* frame[cols]: the rows cut down to the columns
Columns(frame, cols) ==
  Frame(cols, [i \in 1..Len(frame.rows) |-> [c \in cols |-> frame.rows[i][c]]])

\* the master view of a frame that has been cut down to its active rows
MasterOf(active_df) ==
  Columns(active_df, Range(master_columns) \cap active_df.columns)

\* a master view of every row, the departed included
extract_master_table_all(detail) == MasterOf(detail)

extract_master_table(detail) == MasterOf(extract_active_employees(detail))

\* NoFrame stands for None
extract_retired_employees(detail) ==
  IF COL_RETIRE_DATE \notin detail.columns THEN NoFrame
  ELSE LET retired == Filter(detail.rows,
                             { row \in Range(detail.rows) :
                                 Strip(Str(row[COL_RETIRE_DATE])) # "" })
       IN IF Len(retired) > 0 THEN Frame(detail.columns, retired) ELSE NoFrame

-----------------------------------------------------------------------------
(* is_part_time_or_contract, create_headcount_summary *)

\* パート, ぱーと, part, part-time, 嘱託, しょくたく, 嘱托, 委託, いたく, 研修, けんしゅう, シルバー, しるばー, silver, 契約, けいやく, contract, アルバイト, あるばいと, バイト, ばいと, 臨時, りんじ, temp, 派遣, はけん, 非正規, ひせいき
keywords ==
  << "#12497;#12540;#12488;", "#12401;#12540;#12392;", "part", "part-time",
     "#22065;#35351;", "#12375;#12423;#12367;#12383;#12367;",
     "#22065;#25176;", "#22996;#35351;", "#12356;#12383;#12367;",
     "#30740;#20462;", "#12369;#12435;#12375;#12421;#12358;",
     "#12471;#12523;#12496;#12540;", "#12375;#12427;#12400;#12540;",
     "silver", "#22865;#32004;", "#12369;#12356;#12420;#12367;", "contract",
     "#12450;#12523;#12496;#12452;#12488;",
     "#12354;#12427;#12400;#12356;#12392;", "#12496;#12452;#12488;",
     "#12400;#12356;#12392;", "#33256;#26178;", "#12426;#12435;#12376;",
     "temp", "#27966;#36963;", "#12399;#12369;#12435;",
     "#38750;#27491;#35215;", "#12402;#12379;#12356;#12365;" >>

is_part_time_or_contract(employment_type) ==
  IF isna(employment_type) THEN FALSE
  ELSE \E employment_str \in { Lower(Str(employment_type)) } :
         \E k \in 1..Len(keywords) : Contains(employment_str, keywords[k])

\* パート|嘱託|嘱托|ぱーと|しょくたく|アルバイト|臨時
PART_TIME_WORDS ==
  << "#12497;#12540;#12488;", "#22065;#35351;", "#22065;#25176;",
     "#12401;#12540;#12392;", "#12375;#12423;#12367;#12383;#12367;",
     "#12450;#12523;#12496;#12452;#12488;", "#33256;#26178;" >>

\* 委託|研修|シルバー|いたく|けんしゅう|しるばー
OTHER_WORDS ==
  << "#22996;#35351;", "#30740;#20462;", "#12471;#12523;#12496;#12540;",
     "#12356;#12383;#12367;", "#12369;#12435;#12375;#12421;#12358;",
     "#12375;#12427;#12400;#12540;" >>

\* series.astype(str).str.contains("w1|w2|...", case=False): the words have
\* no cased letter
ContainsAny(cell, words) ==
  notna(cell) /\ \E k \in 1..Len(words) : Contains(Str(cell), words[k])

\* "男", "女"
MALE_MARK == "#30007;"
FEMALE_MARK == "#22899;"

\* "【全体合計】"
GRAND_TOTAL == "#12304;#20840;#20307;#21512;#35336;#12305;"

\* sorted() compares a number with a text nowhere: it raises TypeError
RAISED == "TypeError"

MixedTypes(cells) == \E a, b \in cells : a.t # b.t

CellLess(a, b) ==
  IF a.t = "num" /\ IsInt(a.s) /\ IsInt(b.s) THEN ParseInt(a.s) < ParseInt(b.s)
  ELSE TextLess(a.s, b.s)

\* sorted(values) of cells of one type
RECURSIVE SortedCells(_)
SortedCells(cells) ==
  IF cells = {} THEN << >>
  ELSE LET least == CHOOSE a \in cells : \A b \in cells \ {a} : ~CellLess(b, a)
       IN << least >> \o SortedCells(cells \ {least})

CountRows(rows, keep(_)) == Cardinality({ i \in 1..Len(rows) : keep(rows[i]) })

\* the row of one group
HeadcountRow(dept, dept_data) ==
  LET regular_male(row) ==
        /\ ~is_part_time_or_contract(row[COL_EMPLOYMENT])
        /\ Contains(normalize_gender(row[COL_GENDER]), MALE_MARK)
      regular_female(row) ==
        /\ ~is_part_time_or_contract(row[COL_EMPLOYMENT])
        /\ Contains(normalize_gender(row[COL_GENDER]), FEMALE_MARK)
      part_time(row) == ContainsAny(row[COL_EMPLOYMENT], PART_TIME_WORDS)
      other(row) == ContainsAny(row[COL_EMPLOYMENT], OTHER_WORDS)
  IN [dept |-> dept,
      regular_male |-> CountRows(dept_data, regular_male),
      regular_female |-> CountRows(dept_data, regular_female),
      part_time |-> CountRows(dept_data, part_time),
      other |-> CountRows(dept_data, other),
      total |-> Len(dept_data)]

RECURSIVE SumOf(_, _)
SumOf(rows, field) ==
  IF rows = << >> THEN 0 ELSE Head(rows)[field] + SumOf(Tail(rows), field)

\* a total row that repeats the row of the first group
TotalRowFirst(summary_rows) == [summary_rows[1] EXCEPT !.dept = Text(GRAND_TOTAL)]

TotalRow(summary_rows) ==
  [dept |-> Text(GRAND_TOTAL),
   regular_male |-> SumOf(summary_rows, "regular_male"),
   regular_female |-> SumOf(summary_rows, "regular_female"),
   part_time |-> SumOf(summary_rows, "part_time"),
   other |-> SumOf(summary_rows, "other"),
   total |-> SumOf(summary_rows, "total")]

\* the column the rows are grouped by
DeptCol(active_df) ==
  IF COL_SUBDEPT \in active_df.columns THEN COL_SUBDEPT ELSE COL_DEPT_NAME

\* the rows of the summary, << >> for None, RAISED when sorted() raises
create_headcount_summary(detail) ==
  LET active_df == extract_active_employees(detail)
  IN IF Len(active_df.rows) = 0 THEN << >>
     ELSE IF \/ COL_DEPT_NAME \notin active_df.columns
             \/ COL_EMPLOYMENT \notin active_df.columns
             \/ COL_GENDER \notin active_df.columns
     THEN << >>
     ELSE LET dept_col == DeptCol(active_df)
              depts == { row[dept_col] : row \in Range(active_df.rows) }
          IN IF MixedTypes(depts) THEN RAISED
             ELSE LET sorted == SortedCells(depts)
                      summary_rows ==
                        [k \in 1..Len(sorted) |->
                           HeadcountRow(sorted[k],
                                        Filter(active_df.rows,
                                               { row \in Range(active_df.rows) :
                                                   row[dept_col] = sorted[k] }))]
                  IN Append(summary_rows, TotalRow(summary_rows))

-----------------------------------------------------------------------------
(* read_sheet_fast, normalize_sheet, read_excel_all_sheets *)

\* df.dropna(how="all") and df.dropna(axis=1, how="all") on a raw table;
\* NoTable stands for None
KeptRows(table) ==
  Filter(table, { row \in Range(table) : \E c \in 1..Len(row) : notna(row[c]) })

KeptColumns(table) ==
  { c \in 1..Len(table[1]) : \E i \in 1..Len(table) : notna(table[i][c]) }

NthOf(S, k) == CHOOSE c \in S : Cardinality({ d \in S : d < c }) = k - 1

Project(row, keep) == [k \in 1..Cardinality(keep) |-> row[NthOf(keep, k)]]

read_sheet_fast(table) ==
  IF Len(table) = 0 THEN NoTable
  ELSE LET rows == KeptRows(table)
       IN IF Len(rows) = 0 THEN NoTable
          ELSE [i \in 1..Len(rows) |-> Project(rows[i], KeptColumns(rows))]

\* a frame from a list of column names and rows of cells (the names distinct)
FrameOf(header, data) ==
  Frame(Range(header),
        [i \in 1..Len(data) |->
           [c \in Range(header) |->
              data[i][Min({ k \in 1..Len(header) : header[k] = c })]]])

\* a column the sheet lacks is filled with ""
WithColumn(frame, col) ==
  IF col \in frame.columns THEN frame ELSE SetColumn(frame, col, Text(""))

\* the first data row is dropped when it repeats the header
DropRepeatedHeader(frame) ==
  IF Len(frame.rows) > 0 /\ Strip(Str(frame.rows[1][COL_EMP_NO])) = COL_EMP_NO
  THEN Frame(frame.columns, Tail(frame.rows))
  ELSE frame

\* a sheet taken whether or not its header has a number or a name column
normalize_sheet_unchecked(table, sheet_name, file_name) ==
  IF Len(table) = 0 THEN NoFrame
  ELSE LET idx == detect_header_row(table, MAX_SCAN)
           header == IF idx = NotFound
                     THEN [i \in 1..Len(table[1]) |-> "col_" \o ToString(i - 1)]
                     ELSE normalize_column_names(table[idx + 1])
           data == IF idx = NotFound THEN table
                   ELSE SubSeq(table, idx + 2, Len(table))
       IN DropRepeatedHeader(
            SetColumn(WithColumn(WithColumn(FrameOf(header, data), COL_EMP_NO),
                                 COL_NAME),
                      COL_SOURCE, Text(file_name \o "/" \o sheet_name)))

\* NoFrame stands for None; the closing dropna(how="all") drops no row, every
\* row has its __source__
normalize_sheet(table, sheet_name, file_name) ==
  IF Len(table) = 0 THEN NoFrame
  ELSE LET idx == detect_header_row(table, MAX_SCAN)
           header == IF idx = NotFound
                     THEN [i \in 1..Len(table[1]) |-> "col_" \o ToString(i - 1)]
                     ELSE normalize_column_names(table[idx + 1])
           data == IF idx = NotFound THEN table
                   ELSE SubSeq(table, idx + 2, Len(table))
       IN IF COL_EMP_NO \notin Range(header) /\ COL_NAME \notin Range(header)
          THEN NoFrame
          ELSE DropRepeatedHeader(
                 SetColumn(WithColumn(WithColumn(FrameOf(header, data), COL_EMP_NO),
                                      COL_NAME),
                           COL_SOURCE, Text(file_name \o "/" \o sheet_name)))

\* the frames of one workbook: a sheet that cannot be read, has no number and
\* no name column, or has no data row adds nothing
RECURSIVE SheetFrames(_, _, _)
SheetFrames(sheets, idx, file_name) ==
  IF idx > Len(sheets) THEN << >>
  ELSE LET table == read_sheet_fast(sheets[idx])
           normalized == IF table = NoTable THEN NoFrame
                            ELSE normalize_sheet(table, "Sheet" \o ToString(idx), file_name)
       IN (IF normalized # NoFrame /\ Len(normalized.rows) > 0
           THEN << normalized >> ELSE << >>)
          \o SheetFrames(sheets, idx + 1, file_name)

read_excel_all_sheets(sheets, file_name) == SheetFrames(sheets, 1, file_name)

\* the loop over excel_files of the two handlers
ReadInput(excel_files) ==
  Flatten([i \in 1..Len(excel_files) |->
             read_excel_all_sheets(excel_files[i], "book" \o ToString(i) \o ".xlsx")])

-----------------------------------------------------------------------------
(* read_existing_master *)

\* texts that pd.read_excel reads as missing, among them the empty text
NA_VALUES == { "", "nan", "NaN", "NA", "N/A", "n/a", "NULL", "null", "None" }

ReadCell(cell) == IF cell.t = "str" /\ cell.s \in NA_VALUES THEN NaN ELSE cell

EXISTING_SOURCE ==
  "#32113;#21512;#12501;#12449;#12452;#12523;_.xlsx/#35443;#32048;"

\* the detail sheet of the newest file of the output folder, NoFrame for None
read_existing_master(files) ==
  IF files = << >> THEN NoFrame
  ELSE LET sheet == files[Len(files)]
       IN SetColumn(Frame(sheet.columns,
                          [i \in 1..Len(sheet.rows) |->
                             [c \in sheet.columns |-> ReadCell(sheet.rows[i][c])]]),
                    COL_SOURCE, Text(EXISTING_SOURCE))

-----------------------------------------------------------------------------
(* run_initial_build, run_add_excel *)

DateLE(a, b) ==
  \/ a.year < b.year
  \/ a.year = b.year /\ a.month < b.month
  \/ a.year = b.year /\ a.month = b.month /\ a.day <= b.day

\* the part the two handlers share: the maps, the pool, the detail table and
\* the written file.  consolidate_data gives every frame of dfs the priority
\* it is called with.  An empty pool makes build_detail_table raise, mixed
\* group values make create_headcount_summary raise: the handler passes the
\* exception on and the run ends without a file.
BuildAndWrite(dfs, now, to, failed) ==
  LET pool == consolidate_data(dfs, DEFAULT_PRIORITY)
  IN IF pool.rows = << >>
     THEN /\ pc' = failed
          /\ all_dfs' = WithPriority(dfs, DEFAULT_PRIORITY)
          /\ dept_map' = build_master_maps(dfs).dept
          /\ qual_map' = build_master_maps(dfs).qual
          /\ pos_map' = build_master_maps(dfs).pos
          /\ combined' = pool
          /\ UNCHANGED << grouped, result_rows, detail_df_all, today, output_dir,
                          view_vars >>
     ELSE \E maps \in { build_master_maps(dfs) } :
          \E ids \in RowIds(pool.rows) :
          \E keyed \in { WithMergeKeys(pool, ids) } :
          \E detail \in { build_detail_table(keyed, maps, now) } :
          \E summary \in { create_headcount_summary(detail) } :
            /\ today' = now
            /\ all_dfs' = WithPriority(dfs, DEFAULT_PRIORITY)
            /\ dept_map' = maps.dept
            /\ qual_map' = maps.qual
            /\ pos_map' = maps.pos
            /\ combined' = keyed
            /\ grouped' = GroupKeys(keyed.rows, << >>)
            /\ result_rows' =
                 [g \in 1..Len(GroupKeys(keyed.rows, << >>)) |->
                    MergeGroup(GroupOf(keyed, GroupKeys(keyed.rows, << >>)[g]),
                               keyed.columns, maps)]
            /\ detail_df_all' = detail
            /\ detail_df' = extract_active_employees(detail)
            /\ master_df' = extract_master_table(detail)
            /\ retired_df' = extract_retired_employees(detail)
            /\ IF summary = RAISED
               THEN /\ pc' = failed
                    /\ UNCHANGED << headcount_df, output_dir >>
               ELSE /\ pc' = to
                    /\ headcount_df' = summary
                    /\ output_dir' = Append(output_dir, extract_active_employees(detail))

\* the handler returns before it reads anything
Refuse(to) ==
  /\ pc' = to
  /\ UNCHANGED << all_dfs, map_vars, detail_vars, today, output_dir, view_vars >>

\* the model follows the output folder from its first file on: a first build
\* reads nothing of the folder, so a later one behaves as this one
run_initial_build(excel_files, now) ==
  /\ output_dir = << >>
  /\ input_dir' = excel_files
  /\ IF excel_files = << >> THEN Refuse("initial_refused")
     ELSE \E dfs \in { ReadInput(excel_files) } :
            IF dfs = << >> THEN Refuse("initial_refused")
            ELSE BuildAndWrite(dfs, now, "initial_done", "initial_failed")
  /\ UNCHANGED << column_vars, header_vars, gender_vars, normalized_df >>

run_add_excel(excel_files, now) ==
  /\ Len(output_dir) < MaxRuns
  /\ input_dir' = excel_files
  /\ \E existing_df \in { read_existing_master(output_dir) } :
       IF existing_df = NoFrame \/ excel_files = << >> THEN Refuse("add_refused")
       ELSE BuildAndWrite(<< SetColumn(existing_df, COL_PRIORITY, EXISTING_PRIORITY) >>
                            \o ReadInput(excel_files),
                          now, "add_done", "add_failed")
  /\ UNCHANGED << column_vars, header_vars, gender_vars, normalized_df >>

-----------------------------------------------------------------------------
(* Spec: a first build and add runs on bounded input folders. *)

RunHeader == << Text(COL_EMP_NO), Text(COL_NAME), Text(COL_HIRE_DATE) >>

RunRow(number, name) == << Text(number), Text(name), Text("2020/04/01") >>

\* records of two people, one of them known under two numbers
RunRows == { RunRow("1001", "A"), RunRow("1001", "B"), RunRow("1002", "B") }

Sheet(rows) == << RunHeader >> \o rows

\* a sheet without any label
NoLabelSheet == << << Text("x"), NaN >> >>

\* a sheet whose sub-departments are a number and a text
MixedSheet ==
  << << Text(COL_EMP_NO), Text(COL_NAME), Text(COL_SUBDEPT) >>,
     << Text("1001"), Text("A"), Num("5") >>,
     << Text("1002"), Text("B"), Text("G1") >> >>

\* no workbook, or one workbook with one sheet
InitialFolders ==
  { << >>, << << MixedSheet >> >> }
  \cup { << << Sheet(rows) >> >> : rows \in SeqsUpTo(RunRows, MaxInputRows) }

AddFolders ==
  { << >>, << << NoLabelSheet >> >>,
    << << Sheet(<< RunRow("1001", "B") >>) >> >>,
    << << Sheet(<< RunRow("1002", "A") >>) >> >>,
    << << MixedSheet >> >> }

\* the clock does not run backwards
LaterDates == { d \in Dates : today = NoDate \/ DateLE(today, d) }

Init ==
  /\ pc = "idle"
  /\ IdleColumns /\ IdleHeader /\ IdlePipeline

RunInitialBuild ==
  /\ output_dir = << >>
  /\ \E excel_files \in InitialFolders, now \in LaterDates :
       run_initial_build(excel_files, now)

RunAddExcel ==
  /\ Len(output_dir) < MaxRuns
  /\ \E excel_files \in AddFolders, now \in LaterDates :
       run_add_excel(excel_files, now)

Next == RunInitialBuild \/ RunAddExcel

Spec == Init /\ [][Next]_vars

-----------------------------------------------------------------------------
(* Properties of the runs *)

NewestFile == output_dir[Len(output_dir)]
PriorFile == output_dir[Len(output_dir) - 1]

FromPriorFile(row) == row[COL_SOURCE] = Text(EXISTING_SOURCE)

(* C1: when an add run groups and merges the pool, every record of the prior
   file has a priority value below 10 and every record of a newly read sheet
   has the priority value 10. *)
C1_PriorRecordsPreferred ==
  pc = "add_done" =>
    \A i \in 1..Len(combined.rows) :
      IF FromPriorFile(combined.rows[i])
      THEN combined.rows[i][COL_PRIORITY] < DEFAULT_PRIORITY
      ELSE combined.rows[i][COL_PRIORITY] = DEFAULT_PRIORITY

\* the records of a written detail sheet, the tenure left out
RecordsOf(sheet) ==
  { [c \in sheet.columns \ {COL_TENURE} |-> row[c]] : row \in Range(sheet.rows) }

(* C5: an add run that reads no new record writes the records of the prior
   file again, the tenure apart. *)
C5_RerunKeepsRecords ==
  (pc = "add_done" /\ Len(all_dfs) = 1) => RecordsOf(NewestFile) = RecordsOf(PriorFile)

-----------------------------------------------------------------------------
(* SpecGender: normalize_gender applied to bounded gender cells. *)

\* texts of at most n white-space characters
RECURSIVE Pads(_)
Pads(n) ==
  IF n = 0 THEN { "" }
  ELSE Pads(n - 1) \cup { p \o c : p \in Pads(n - 1), c \in { " ", IDEOGRAPHIC_SPACE } }

\* the tokens of both lists, the Latin ones in three spellings, and texts
\* holding no token
GenderTexts ==
  Range(male_patterns) \cup Range(female_patterns)
  \cup { "m", "male", "Male", "f", "female", "Female" }
  \cup { "X", "x", "", "other", "#19981;#26126;" }

GenderCells ==
  { NaN, Num("1") } \cup { Text(a \o g \o b) : a \in Pads(MaxPad), g \in GenderTexts,
                                               b \in Pads(MaxPad) }

InitGender ==
  /\ pc = "gender"
  /\ gender_cell \in GenderCells
  /\ gender = ""
  /\ IdleColumns
  /\ IdleHeader
  /\ all_dfs = << >> /\ IdleMaps /\ IdleDetail /\ today = NoDate /\ IdleFolders
  /\ IdleSheet /\ IdleViews

NormalizeGender ==
  /\ pc = "gender"
  /\ gender' = normalize_gender(gender_cell)
  /\ pc' = "gender_done"
  /\ UNCHANGED << gender_cell, column_vars, header_vars, all_dfs, map_vars, detail_vars,
               today, folder_vars, normalized_df, view_vars >>

NextGender == NormalizeGender

SpecGender == InitGender /\ [][NextGender]_vars

\* the trimmed, upper-cased text the patterns are looked for in
GenderKey == Upper(Strip(Str(gender_cell)))

HoldsMaleToken == \E i \in 1..Len(male_patterns) : Contains(GenderKey, male_patterns[i])
HoldsFemaleToken ==
  \E i \in 1..Len(female_patterns) : Contains(GenderKey, female_patterns[i])

\* C12: a gender text that is, once trimmed, M, male, the male ideograph or the
\* male reading in katakana, in any case, is normalized to the male label; a
\* text holding no male and no female token is returned trimmed and unchanged
C12_MaleTokensAndPassThrough ==
  (pc = "gender_done" /\ notna(gender_cell)) =>
    /\ GenderKey \in { "M", "MALE", male_patterns[1], male_patterns[6] }
         => gender = MALE_LABEL
    /\ (~HoldsMaleToken /\ ~HoldsFemaleToken) => gender = Strip(Str(gender_cell))

C12_Witness ==
  /\ pc = "gender_done"
  /\ gender_cell = Text(" male" \o IDEOGRAPHIC_SPACE)
  /\ gender = MALE_LABEL

C12_WitnessPassThrough ==
  /\ pc = "gender_done"
  /\ gender_cell = Text(" X ")
  /\ gender = "X"

\* C20: a gender text that is, once trimmed, one of the female tokens, in any
\* case, is normalized to the female label
C20_FemaleTokensYieldFemale ==
  (pc = "gender_done" /\ notna(gender_cell) /\ InList(GenderKey, female_patterns))
    => gender = FEMALE_LABEL

-----------------------------------------------------------------------------
(* Properties of the keys of records without number and name, and of the
   numbers of the returned table. *)

\* a record with neither a number nor a name
Unidentified(i) == ~Present(PoolNumber(i)) /\ ~Present(PoolName(i))

\* C18: two distinct records of the pool that have neither a number nor a
\* name get different keys, so that no two of them fall into one group
C18_UnknownKeysDistinct ==
  pc = "detail_done" =>
    \A i, j \in PoolIndex :
      (i # j /\ Unidentified(i) /\ Unidentified(j)) => PoolKey(i) # PoolKey(j)

DetailNumber(i) == RowText(detail_df_all.rows[i], COL_EMP_NO)

\* C19: no two rows of the detail table of a finished run carry the same
\* non-empty number
C19_NumbersUnique ==
  pc \in { "initial_done", "add_done" } =>
    \A i, j \in 1..Len(detail_df_all.rows) :
      (i # j /\ Present(DetailNumber(i))) => DetailNumber(i) # DetailNumber(j)

\* the input folder of the run holds a sheet that can be used
UsableInput == ReadInput(input_dir) # << >>

\* C14: a run that has read its input folder ends without a written file only
\* when the folder has given no usable sheet, and a first build that has
\* written a file has read a usable sheet
C14_OnlyEmptyCorpusEndsWithoutFile ==
  /\ pc \in { "initial_refused", "initial_failed", "add_failed" } => ~UsableInput
  /\ (pc = "add_refused" /\ output_dir # << >>) => ~UsableInput
  /\ pc = "initial_done" => UsableInput

-----------------------------------------------------------------------------
(* SpecSheet: the body of the loop of read_excel_all_sheets, read_sheet_fast
   and then normalize_sheet, applied to bounded sheets. *)

\* header rows: number, name and department; name and department; department
\* only
SheetHeaders ==
  { << Text(COL_EMP_NO), Text(COL_NAME), Text(COL_DEPT_NAME) >>,
    << Text("x"), Text(COL_NAME), Text(COL_DEPT_NAME) >>,
    << Text("x"), Text("y"), Text(COL_DEPT_NAME) >> }

\* data rows: with number and name, with one of them, with none, blank texts,
\* an empty row, the header once more
SheetRows ==
  { << Text("1001"), Text("A"), Text("Sales") >>,
    << NaN, Text("A"), Text("Sales") >>,
    << Num("1002"), NaN, Text("Sales") >>,
    << NaN, NaN, Text("Sales") >>,
    << Text(" "), Text(IDEOGRAPHIC_SPACE), NaN >>,
    << NaN, NaN, NaN >>,
    << Text(COL_EMP_NO), Text(COL_NAME), Text(COL_DEPT_NAME) >>,
    << Text("1003"), Text(" B "), NaN >> }

\* sheets with one header row on top, sheets without, and long sheets whose
\* only labelled row lies around the end of the scanned rows
SheetTables ==
  { << h >> \o rows : h \in SheetHeaders, rows \in SeqsUpTo(SheetRows, MaxSheetRows) }
  \cup SeqsUpTo(SheetRows, MaxSheetRows)
  \cup { LongTable(MAX_SCAN + ScanSlack, h) : h \in (MAX_SCAN - 1)..(MAX_SCAN + ScanSlack) }

InitSheet ==
  /\ pc = "sheet"
  /\ \E table \in SheetTables : df = read_sheet_fast(table)
  /\ header_row_idx = NotFound
  /\ normalized_df = NoFrame
  /\ IdleColumns
  /\ all_dfs = << >> /\ IdleMaps /\ IdleDetail /\ today = NoDate /\ IdleFolders
  /\ IdleGender /\ IdleViews

\* if df is not None: normalized_df = normalize_sheet(df, sheet_name, file_name)
NormalizeSheet ==
  /\ pc = "sheet"
  /\ df # NoTable
  /\ normalized_df' = normalize_sheet(df, "Sheet1", "book1.xlsx")
  /\ pc' = "sheet_done"
  /\ UNCHANGED << column_vars, header_vars, all_dfs, map_vars, detail_vars, today,
               folder_vars, gender_vars, view_vars >>

NextSheet == NormalizeSheet

SpecSheet == InitSheet /\ [][NextSheet]_vars

\* a cell that holds something else than white space
HasText(cell) == notna(cell) /\ Strip(Str(cell)) # ""

\* C15: every record of a record set returned by normalize_sheet has a
\* non-empty employee number or a non-empty name
C15_RecordsIdentified ==
  (pc = "sheet_done" /\ normalized_df # NoFrame) =>
    \A i \in 1..Len(normalized_df.rows) :
      \/ HasText(normalized_df.rows[i][COL_EMP_NO])
      \/ HasText(normalized_df.rows[i][COL_NAME])

\* some cell of the table holds a text or a number
HasData(table) ==
  \E i \in 1..Len(table) : \E c \in 1..Len(table[i]) : HasText(table[i][c])

\* C21: for every table in which detect_header_row finds no header row,
\* normalize_sheet returns no record set: the names col_0, col_1, ... are
\* neither the number nor the name column, so the sheet is dropped
C21_HeaderlessSheetDropped ==
  (pc = "sheet_done" /\ detect_header_row(df, MAX_SCAN) = NotFound)
    => normalized_df = NoFrame

\* a dropped sheet of data rows without labels
C21_Witness ==
  /\ pc = "sheet_done"
  /\ detect_header_row(df, MAX_SCAN) = NotFound
  /\ Len(df) = MaxSheetRows
  /\ HasData(df)
  /\ normalized_df = NoFrame

\* a dropped sheet whose labels lie behind the scanned rows
C21_WitnessLate ==
  /\ pc = "sheet_done"
  /\ detect_header_row(df, MAX_SCAN) = NotFound
  /\ \E i \in 1..Len(df) : df[i] = LabelRow
  /\ normalized_df = NoFrame

-----------------------------------------------------------------------------
(* SpecViews: the maps, the detail table and the four views of it, as the two
   handlers compute them one after the other, on bounded pools. *)

\* "正社員", "パート", "委託"
REGULAR == "#27491;#31038;#21729;"
PART_TIME == "#12497;#12540;#12488;"
ENTRUSTED == "#22996;#35351;"

ViewCells(gender_text, employment, retire_date, dept_name, subdept) ==
  [c \in {COL_GENDER, COL_EMPLOYMENT, COL_RETIRE_DATE, COL_DEPT_NAME, COL_SUBDEPT} |->
     IF c = COL_GENDER THEN Text(gender_text)
     ELSE IF c = COL_EMPLOYMENT THEN Text(employment)
     ELSE IF c = COL_RETIRE_DATE THEN Text(retire_date)
     ELSE IF c = COL_DEPT_NAME THEN Text(dept_name)
     ELSE Text(subdept)]

\* a regular man, a regular woman, a part-timer, a man who has left, a
\* regular employee of another department whose gender is not recorded, an
\* entrusted woman of a sub-department
ViewOptions ==
  << ViewCells("M", REGULAR, "", "Sales", ""),
     ViewCells("F", REGULAR, "", "Sales", ""),
     ViewCells("", PART_TIME, "", "Sales", ""),
     ViewCells("M", REGULAR, "2024/03/31", "Sales", ""),
     ViewCells("", REGULAR, " ", "Dev", ""),
     ViewCells("F", ENTRUSTED, "", "Dev", "G1") >>

\* the choices of n options, in the order of ViewOptions
RECURSIVE ViewChoices(_, _)
ViewChoices(n, from) ==
  IF n = 0 THEN { << >> }
  ELSE UNION { { << k >> \o rest : rest \in ViewChoices(n - 1, k) } :
               k \in from..Len(ViewOptions) }

\* one record per employee: the i-th record has the number 100i and the name Ni
ViewRow(i, k) ==
  PoolRow(ViewOptions[k] @@ Cells2(COL_EMP_NO, Text("100" \o ToString(i)),
                                   COL_NAME, Text("N" \o ToString(i))),
          DEFAULT_PRIORITY)

ViewPools ==
  { [i \in 1..Len(choice) |-> ViewRow(i, choice[i])] :
      choice \in UNION { ViewChoices(n, 1) : n \in 1..MaxViewRows } }

InitViews ==
  /\ pc = "views"
  /\ \E rows \in ViewPools :
       /\ combined = Frame(PoolColumns, rows)
       /\ all_dfs = << Frame(PoolColumns, rows) >>
  /\ grouped = << >>
  /\ result_rows = << >>
  /\ detail_df_all = NoFrame
  /\ today = [year |-> 2026, month |-> 4, day |-> 1]
  /\ IdleColumns /\ IdleHeader /\ IdleMaps /\ IdleFolders
  /\ IdleGender /\ IdleSheet /\ IdleViews

\* detail_df, master_df, retired_df and headcount_df of the two handlers
ExtractViews(from, to, failed) ==
  /\ pc = from
  /\ detail_df' = extract_active_employees(detail_df_all)
  /\ master_df' = extract_master_table(detail_df_all)
  /\ retired_df' = extract_retired_employees(detail_df_all)
  /\ \E summary \in { create_headcount_summary(detail_df_all) } :
       IF summary = RAISED
       THEN pc' = failed /\ UNCHANGED headcount_df
       ELSE pc' = to /\ headcount_df' = summary
  /\ UNCHANGED << column_vars, header_vars, all_dfs, map_vars, detail_vars, today,
               folder_vars, gender_vars, normalized_df >>

NextViews ==
  \/ BuildMasterMaps("views", "views_maps")
  \/ BuildDetailTable("views_maps", "views_detail")
  \/ ExtractViews("views_detail", "views_done", "views_failed")

SpecViews == InitViews /\ [][NextViews]_vars

\* a record that has left: its retirement date is not blank
Departed(row) == Strip(Str(row[COL_RETIRE_DATE])) # ""

\* how often a record occurs in a list of records
Occurrences(row, rows) == Cardinality({ i \in 1..Len(rows) : rows[i] = row })

\* C11: every record of the detail table is in exactly one of the active view
\* and the departed view, in the departed view iff its retirement date is
\* non-empty after trimming, and the master view has exactly one row per
\* record of the active view
C11_ViewsPartitionDetail ==
  pc = "views_done" =>
    /\ \A row \in Range(detail_df_all.rows) :
         /\ Occurrences(row, detail_df.rows)
              = (IF Departed(row) THEN 0 ELSE Occurrences(row, detail_df_all.rows))
         /\ Occurrences(row, retired_df.rows)
              = (IF Departed(row) THEN Occurrences(row, detail_df_all.rows) ELSE 0)
    /\ Range(detail_df.rows) \cup Range(retired_df.rows) \subseteq Range(detail_df_all.rows)
    /\ Len(master_df.rows) = Len(detail_df.rows)
    /\ \A i \in 1..Len(master_df.rows) :
         \A c \in master_df.columns : master_df.rows[i][c] = detail_df.rows[i][c]

\* views of a detail table that has records of both kinds
C11_Witness ==
  /\ pc = "views_done"
  /\ Len(detail_df.rows) >= 2
  /\ retired_df # NoFrame
  /\ Len(retired_df.rows) >= 1
  /\ Len(master_df.rows) = Len(detail_df.rows)

-----------------------------------------------------------------------------
(* Properties of the headcount summary, stated on the active view (detail_df)
   and the rows of the summary (headcount_df), the last of which is the total. *)

GroupRowIndex == 1..(Len(headcount_df) - 1)

\* the active records of the group of row k
GroupMembers(k) ==
  Filter(detail_df.rows,
         { row \in Range(detail_df.rows) : row[DeptCol(detail_df)] = headcount_df[k].dept })

EmploymentOf(row) == Strip(Str(row[COL_EMPLOYMENT]))

RegularMale(row) == EmploymentOf(row) = REGULAR /\ Str(row[COL_GENDER]) = MALE_LABEL
RegularFemale(row) == EmploymentOf(row) = REGULAR /\ Str(row[COL_GENDER]) = FEMALE_LABEL
PartTimer(row) == EmploymentOf(row) = PART_TIME

NumericColumns == { "regular_male", "regular_female", "part_time", "other", "total" }

\* C13: a group of regular men, regular women and part-timers only gets their
\* three numbers, 0 entrusted or trainee records and the size of the group as
\* its total (2, 1, 1, 0, 4 for two men, one woman and one part-timer), and
\* the last row holds, for each numeric column, the sum of the column over
\* the rows of the groups
C13_GroupCountsAndGrandTotal ==
  (pc = "views_done" /\ headcount_df # << >>) =>
    /\ \A k \in GroupRowIndex :
         (\A i \in 1..Len(GroupMembers(k)) :
            \/ RegularMale(GroupMembers(k)[i])
            \/ RegularFemale(GroupMembers(k)[i])
            \/ PartTimer(GroupMembers(k)[i]))
         => /\ headcount_df[k].regular_male = CountRows(GroupMembers(k), RegularMale)
            /\ headcount_df[k].regular_female = CountRows(GroupMembers(k), RegularFemale)
            /\ headcount_df[k].part_time = CountRows(GroupMembers(k), PartTimer)
            /\ headcount_df[k].other = 0
            /\ headcount_df[k].total = Len(GroupMembers(k))
    /\ headcount_df[Len(headcount_df)].dept = Text(GRAND_TOTAL)
    /\ \A field \in NumericColumns :
         headcount_df[Len(headcount_df)][field]
           = SumOf(SubSeq(headcount_df, 1, Len(headcount_df) - 1), field)

\* two groups, one of them of two regular men, one regular woman and one
\* part-timer
C13_Witness ==
  /\ pc = "views_done"
  /\ Len(headcount_df) = 3
  /\ \E k \in GroupRowIndex :
       /\ CountRows(GroupMembers(k), RegularMale) = 2
       /\ CountRows(GroupMembers(k), RegularFemale) = 1
       /\ CountRows(GroupMembers(k), PartTimer) = 1
       /\ Len(GroupMembers(k)) = 4
       /\ headcount_df[k].regular_male = 2
       /\ headcount_df[k].regular_female = 1
       /\ headcount_df[k].part_time = 1
       /\ headcount_df[k].other = 0
       /\ headcount_df[k].total = 4
  /\ headcount_df[3].total = 5

PartTimeOrContract(row) == is_part_time_or_contract(row[COL_EMPLOYMENT])

\* C16: in every group the number of part-time or contract records plus the
\* number of regular men plus the number of regular women is the total of the
\* group
C16_BucketsCoverGroup ==
  (pc = "views_done" /\ headcount_df # << >>) =>
    \A k \in GroupRowIndex :
      CountRows(GroupMembers(k), PartTimeOrContract)
        + headcount_df[k].regular_male + headcount_df[k].regular_female
      = headcount_df[k].total

\* C17: when no record of the detail table has a sub-department, the active
\* records are grouped by department name: two records with different
\* department names are in different rows of the summary
C17_GroupedByDepartmentName ==
  (/\ pc = "views_done"
   /\ headcount_df # << >>
   /\ \A row \in Range(detail_df_all.rows) : Strip(Str(row[COL_SUBDEPT])) = "")
  => \A k \in GroupRowIndex :
       \A i, j \in 1..Len(GroupMembers(k)) :
         GroupMembers(k)[i][COL_DEPT_NAME] = GroupMembers(k)[j][COL_DEPT_NAME]
====
